---------------------------- MODULE Spec2Model ----------------------------
(***************************************************************************)
(* github-pr-metrics: the statistics utilities (calculateMedianInt,        *)
(* calculateMedianFloat, getStartOfISOWeek), the aggregated metrics        *)
(* calculator (CalculateWeeklyAggregatedMetrics,                           *)
(* CalculateMonthlyAggregatedMetrics, calculateAggregatedMetrics) and the  *)
(* batch loop that feeds it (CalculateAllPRMetrics), as run by main().     *)
(*                                                                         *)
(* Representation.                                                         *)
(*  - A time.Time is [day, sec]: day counts the days since 0001-01-01 (the *)
(*    zero Time is day 0, sec 0), sec the seconds since midnight.  All     *)
(*    times are UTC, as the GitHub API delivers them.                      *)
(*  - A float64 is an exact rational [num, den] in lowest terms with       *)
(*    den > 0, without rounding; where the rounding of float64 arithmetic  *)
(*    matters (two runs on reordered records) it is the binary64 value     *)
(*    itself, see "float64 arithmetic".                                    *)
(*  - A Go string built by fmt.Sprintf is the sequence of its bytes.       *)
(***************************************************************************)
EXTENDS Integers, Sequences, FiniteSets, TLC

VARIABLES
    pc,             \* main(): "fetch", "weekly", "monthly", "done"; "idle" outside main()
    prs,            \* main(): the pull requests handed to CalculateAllPRMetrics
    prMetrics,      \* main(): result of CalculateAllPRMetrics
    weeklyPRs,      \* CalculateWeeklyAggregatedMetrics: the map weeklyPRs at return
    weeklyMetrics,  \* main(): result of CalculateWeeklyAggregatedMetrics
    weeklyErr,      \* main(): its error
    monthlyPRs,     \* CalculateMonthlyAggregatedMetrics: the map monthlyPRs at return
    monthlyMetrics, \* main(): result of CalculateMonthlyAggregatedMetrics
    monthlyErr,     \* main(): its error
    family,         \* which bounded family of inputs this run draws its pull requests from
    intValues,      \* statistics utilities: the caller's []int
    values,         \* statistics utilities: the caller's []float64, holding the same numbers
    original,       \* statistics utilities: values as it was before any call
    medianResult,   \* statistics utilities: what the median function returned
    medianCall,     \* statistics utilities: "none", "int" or "float"
    date,           \* statistics utilities: the argument of getStartOfISOWeek
    weekStart,      \* statistics utilities: its result, once weekCall is "called"
    weekCall,       \* statistics utilities: "none" before the call, "called" after it
    idx,            \* CalculateAllPRMetrics: how many pull requests the range loop has taken
    pcPR,           \* CalculatePRMetrics: "loop" between calls, the next source call
                    \* ("details", "commits", "comments", "reviews"), "time", "returned"
    inflight,       \* the source request issued and not yet completed, or "none"
    curMetrics,     \* CalculatePRMetrics: its local metrics
    curCommits,     \* CalculatePRMetrics: its local commits
    curComments,    \* CalculatePRMetrics: its local comments
    ret,            \* CalculatePRMetrics: what it returned (nil or &metrics, err)
    allMetrics,     \* CalculateAllPRMetrics: its local allMetrics
    calcErr,        \* main(): the error CalculateAllPRMetrics returned, "none" before
    requests,       \* the source requests issued and completed so far, in order
    permMetrics,    \* a second run of main(): its prMetrics, the same records reordered
    permWeekly,     \* the second run: result of CalculateWeeklyAggregatedMetrics
    permMonthly     \* the second run: result of CalculateMonthlyAggregatedMetrics

vars == <<pc, prs, prMetrics, weeklyPRs, weeklyMetrics, weeklyErr, monthlyPRs,
          monthlyMetrics, monthlyErr, family, intValues, values, original,
          medianResult, medianCall, date, weekStart, weekCall, idx, pcPR, inflight,
          curMetrics, curCommits, curComments, ret, allMetrics, calcErr, requests,
          permMetrics, permWeekly, permMonthly>>

pipelineVars == <<pc, prs, prMetrics, weeklyPRs, weeklyMetrics, weeklyErr,
                  monthlyPRs, monthlyMetrics, monthlyErr, family>>

medianVars == <<intValues, values, original, medianResult, medianCall>>

weekVars == <<date, weekStart, weekCall>>

orderVars == <<permMetrics, permWeekly, permMonthly>>

calcVars == <<idx, pcPR, inflight, curMetrics, curCommits, curComments, ret, allMetrics,
              calcErr, requests>>

NoResult == "none"

(***************************************************************************)
(* float64 as exact rationals                                              *)
(***************************************************************************)
Abs(n) == IF n < 0 THEN -n ELSE n

RECURSIVE GCD(_, _)
GCD(a, b) == IF b = 0 THEN a ELSE GCD(b, a % b)

\* The rational n/d (d # 0) in lowest terms with a positive denominator.
Rat(n, d) ==
    LET g == GCD(Abs(n), Abs(d))
        s == IF d < 0 THEN -1 ELSE 1
    IN  [num |-> (s * n) \div g, den |-> (s * d) \div g]

\* float64(v) of an int v (exact in the modelled range).
Float64(v) == Rat(v, 1)

RatZero == Float64(0)

RatAdd(a, b) == Rat(a.num * b.den + b.num * a.den, a.den * b.den)

\* a / b for b # 0.
RatDiv(a, b) == Rat(a.num * b.den, a.den * b.num)

RatLess(a, b) == a.num * b.den < b.num * a.den

RatLeq(a, b) == a.num * b.den <= b.num * a.den

(***************************************************************************)
(* package time (UTC)                                                      *)
(***************************************************************************)
ZeroTime == [day |-> 0, sec |-> 0]

\* Time.IsZero
IsZero(t) == t.day = 0 /\ t.sec = 0

\* Time.Before
Before(t, u) == t.day < u.day \/ (t.day = u.day /\ t.sec < u.sec)

\* not Time.After: t <= u
NotAfter(t, u) == ~Before(u, t)

isLeap(year) == year % 4 = 0 /\ (year % 100 # 0 \/ year % 400 = 0)

\* daysBefore[m+1] is the number of days in a non-leap year before month m+1 starts.
daysBefore == <<0, 31, 59, 90, 120, 151, 181, 212, 243, 273, 304, 334, 365>>

\* Days from 0001-01-01 to January 1 of year.
daysSinceEpoch(year) ==
    LET y == year - 1
    IN  365 * y + (y \div 4) - (y \div 100) + (y \div 400)

\* time.Date(year, month, day, 0, 0, 0, 0, UTC) plus secs seconds of clock time
\* (0 <= secs < 86400): month and day may be out of range and are normalised.
Date(year, month, day, secs) ==
    LET m0 == month - 1
        y  == year + (m0 \div 12)
        m  == (m0 % 12) + 1
        d  == daysSinceEpoch(y) + daysBefore[m]
              + (IF isLeap(y) /\ m >= 3 THEN 1 ELSE 0) + (day - 1)
    IN  [day |-> d, sec |-> secs]

\* `n -= n >> 2` of absDate: a count of 4 centuries (years) becomes 3.
Cap3(q) == IF q = 4 THEN 3 ELSE q

\* absDate, last step: n1 whole years into the 4-year cycle that starts in year y + 1.
absDate1(y, n1, r) == [year |-> 1 + y + n1, yday |-> r - 365 * n1]

\* absDate, third step: r days into the century that starts in year y + 1.
absDate4(y, r) == absDate1(y + 4 * (r \div 1461), Cap3((r % 1461) \div 365), r % 1461)

\* absDate, second step: n100 whole centuries into the 400-year cycle.
absDate100(y, n100, r) == absDate4(y + 100 * n100, r - 36524 * n100)

\* absDate: the year and the zero-based day of the year of day number n.
absDate(n) == absDate100(400 * (n \div 146097), Cap3((n % 146097) \div 36524), n % 146097)

\* The month and the day of the month of the d-th day (from 0) of a year, leap
\* day aside.
monthDay(year, d) ==
    LET m0  == d \div 31
        end == daysBefore[m0 + 2]
    IN  IF d >= end
        THEN [year |-> year, month |-> m0 + 2, day |-> d - end + 1]
        ELSE [year |-> year, month |-> m0 + 1, day |-> d - daysBefore[m0 + 1] + 1]

\* absDate's second half: from the year and the day of the year to the date.
yearDay(a) ==
    IF isLeap(a.year) /\ a.yday = 59
    THEN [year |-> a.year, month |-> 2, day |-> 29]
    ELSE monthDay(a.year, IF isLeap(a.year) /\ a.yday > 59 THEN a.yday - 1 ELSE a.yday)

\* Time.Date(): year, month (1..12) and day of the month of t.
DateOf(t) == yearDay(absDate(t.day))

\* Time.Weekday(): 0 = Sunday, 1 = Monday, ..., 6 = Saturday (0001-01-01 is a Monday).
Weekday(t) == (t.day + 1) % 7

\* ISOWeek, last step: the year and week of the Thursday of the week.
isoWeekOf(a) == [year |-> a.year, week |-> (a.yday \div 7) + 1]

\* Time.ISOWeek(): the ISO 8601 year and week number of t.
ISOWeek(t) ==
    LET d == 4 - Weekday(t)
    IN  isoWeekOf(absDate(t.day + (IF d = 4 THEN -3 ELSE d)))

\* time.Date(c.year + years, c.month + months, c.day + days, <clock>) of a date c.
DateAt(c, years, months, days, secs) ==
    Date(c.year + years, c.month + months, c.day + days, secs)

\* Time.AddDate(years, months, days)
AddDate(t, years, months, days) == DateAt(DateOf(t), years, months, days, t.sec)

(***************************************************************************)
(* fmt.Sprintf                                                             *)
(***************************************************************************)
\* "%d" of n >= 0: its decimal digits as bytes ("0" is 48).
RECURSIVE Itoa(_)
Itoa(n) == IF n < 10 THEN <<48 + n>> ELSE Itoa(n \div 10) \o <<48 + (n % 10)>>

\* "%02d" of n >= 0: zero-padded to at least two digits.
Pad2(n) == IF n < 10 THEN <<48>> \o Itoa(n) ELSE Itoa(n)

\* Go's s < t on strings: bytewise lexical order.
RECURSIVE StrLess(_, _)
StrLess(s, t) ==
    IF t = <<>> THEN FALSE
    ELSE IF s = <<>> THEN TRUE
    ELSE IF Head(s) # Head(t) THEN Head(s) < Head(t)
    ELSE StrLess(Tail(s), Tail(t))

(***************************************************************************)
(* Statistics utilities                                                    *)
(***************************************************************************)
\* One pass of insertion: x put into the ascending sequence s.
RECURSIVE InsertFloat(_, _)
InsertFloat(x, s) ==
    IF s = <<>> THEN <<x>>
    ELSE IF RatLess(x, Head(s)) THEN <<x>> \o s
    ELSE <<Head(s)>> \o InsertFloat(x, Tail(s))

\* sort.Float64s(values): the slice's contents after the call (ascending).
RECURSIVE SortFloat64s(_)
SortFloat64s(s) ==
    IF s = <<>> THEN <<>> ELSE InsertFloat(Head(s), SortFloat64s(Tail(s)))

\* The element at Go index i of a slice.
At(s, i) == s[i + 1]

\* calculateMedianFloat without its sort.Float64s call.
calculateMedianFloat_Unsorted(vals) ==
    IF Len(vals) = 0 THEN RatZero
    ELSE LET length == Len(vals)
         IN  IF length % 2 = 0
             THEN RatDiv(RatAdd(At(vals, (length \div 2) - 1), At(vals, length \div 2)),
                         Float64(2))
             ELSE At(vals, length \div 2)

\* calculateMedianFloat: the value returned.  The call sorts values in place; what
\* the caller's slice holds afterwards is SortFloat64s(values).
calculateMedianFloat(vals) ==
    IF Len(vals) = 0 THEN RatZero
    ELSE LET sorted == SortFloat64s(vals)
             length == Len(sorted)
         IN  IF length % 2 = 0
             THEN RatDiv(RatAdd(At(sorted, (length \div 2) - 1), At(sorted, length \div 2)),
                         Float64(2))
             ELSE At(sorted, length \div 2)

\* calculateMedianInt: converts into a fresh float64 slice and takes its median.
calculateMedianInt(vals) ==
    IF Len(vals) = 0 THEN RatZero
    ELSE LET floatValues == [i \in 1..Len(vals) |-> Float64(vals[i])]
         IN  calculateMedianFloat(floatValues)

\* getStartOfISOWeek without the remapping of Sunday from 0 to 7.
getStartOfISOWeek_NoSundayRemap(d) ==
    LET isoWeekday     == Weekday(d)
        daysToSubtract == isoWeekday - 1
        startOfDay     == DateAt(DateOf(d), 0, 0, 0, 0)
    IN  AddDate(startOfDay, 0, 0, -daysToSubtract)

\* getStartOfISOWeek
getStartOfISOWeek(d) ==
    LET weekday        == Weekday(d)
        isoWeekday     == IF weekday = 0 THEN 7 ELSE weekday
        daysToSubtract == isoWeekday - 1
        startOfDay     == DateAt(DateOf(d), 0, 0, 0, 0)
    IN  AddDate(startOfDay, 0, 0, -daysToSubtract)

(***************************************************************************)
(* api.PRMetrics and api.AggregatedMetrics                                 *)
(***************************************************************************)
\* The int fields of PRMetrics that are aggregated.
CountFields ==
    <<"CommitCount", "CommentCount", "ReviewCount", "ApprovalCount", "Additions",
      "Deletions", "ChangedFiles", "CommitCountDuringPR">>

\* The float64 fields of PRMetrics that are aggregated (durations and gaps, in hours).
HoursFields ==
    <<"FirstCommitToCreateHours", "CreateToLastCommitHours", "FirstCommitToMergeHours",
      "LastCommitToMergeHours", "CreatedToFirstCommentHours", "TimeToApprovalHours",
      "TotalPRLifetimeHours", "MaxNoCommentPeriodHours", "MaxNoCommitPeriodHours",
      "MaxNoActivityPeriodHours">>

Range(s) == {s[i] : i \in DOMAIN s}

CountFieldSet == Range(CountFields)

HoursFieldSet == Range(HoursFields)

\* AggregatedMetrics: Avg[f] and Median[f] stand for the fields Avg<f> and Median<f>.
AggregatedMetrics(period, startDate, endDate, prCount, avg, median) ==
    [Period |-> period, StartDate |-> startDate, EndDate |-> endDate,
     PRCount |-> prCount, Avg |-> avg, Median |-> median]

(***************************************************************************)
(* Aggregated metrics calculator                                           *)
(***************************************************************************)
\* The values of field f over the pull requests of a group, in order.
FieldValues(group, f) == [i \in 1..Len(group) |-> group[i][f]]

RECURSIVE SumInt(_)
SumInt(s) == IF s = <<>> THEN 0 ELSE Head(s) + SumInt(Tail(s))

RECURSIVE SumFloat(_)
SumFloat(s) == IF s = <<>> THEN RatZero ELSE RatAdd(Head(s), SumFloat(Tail(s)))

\* The inclusion test written as `>= 0`.
IsIncluded_NonNegative(v) == RatLeq(RatZero, v)

\* `if pr.<f> > 0`: whether a duration or gap value enters the sum, the count and
\* the slice of its field.
IsIncluded(v) == RatLess(RatZero, v)

\* The slice collected for an hours field: the values that pass the test, in order.
IncludedValues(group, f) == SelectSeq(FieldValues(group, f), IsIncluded)

\* The average of a count field divided by the number of non-zero values, as the
\* hours fields are.
AvgCount_NonZero(group, f) ==
    LET vals == SelectSeq(FieldValues(group, f), LAMBDA v : v > 0)
    IN  IF Len(vals) > 0
        THEN RatDiv(Float64(SumInt(FieldValues(group, f))), Float64(Len(vals)))
        ELSE RatZero

\* Avg<f> of a count field: float64(sum) / float64(prCount).
AvgCount(group, f) ==
    RatDiv(Float64(SumInt(FieldValues(group, f))), Float64(Len(group)))

\* Median<f> of a count field.
MedianCount(group, f) == calculateMedianInt(FieldValues(group, f))

\* Avg<f> of an hours field: set only `if count<f> > 0`.
AvgHours(group, f) ==
    LET vals == IncludedValues(group, f)
    IN  IF Len(vals) > 0 THEN RatDiv(SumFloat(vals), Float64(Len(vals))) ELSE RatZero

\* The median of an hours field taken over all values of the group.
MedianHours_AllValues(group, f) ==
    IF Len(IncludedValues(group, f)) > 0
    THEN calculateMedianFloat(FieldValues(group, f))
    ELSE RatZero

\* Median<f> of an hours field: set only `if count<f> > 0`.
MedianHours(group, f) ==
    LET vals == IncludedValues(group, f)
    IN  IF Len(vals) > 0 THEN calculateMedianFloat(vals) ELSE RatZero

\* calculateAggregatedMetrics
calculateAggregatedMetrics(period, startDate, endDate, group) ==
    LET prCount == Len(group)
        zero    == [f \in CountFieldSet \cup HoursFieldSet |-> RatZero]
    IN  IF prCount = 0
        THEN AggregatedMetrics(period, startDate, endDate, 0, zero, zero)
        ELSE AggregatedMetrics(period, startDate, endDate, prCount,
                 [f \in CountFieldSet \cup HoursFieldSet |->
                     IF f \in CountFieldSet THEN AvgCount(group, f) ELSE AvgHours(group, f)],
                 [f \in CountFieldSet \cup HoursFieldSet |->
                     IF f \in CountFieldSet THEN MedianCount(group, f)
                     ELSE MedianHours(group, f)])

\* fmt.Sprintf("%d-W%02d", year, week)
SprintfWeek(w) == Itoa(w.year) \o <<45, 87>> \o Pad2(w.week)

\* fmt.Sprintf("%d-%02d", year, month)
SprintfMonth(c) == Itoa(c.year) \o <<45>> \o Pad2(c.month)

\* weekKey of the weekly loop body, for a pull request merged at t.
WeekKey(t) == SprintfWeek(ISOWeek(t))

\* monthKey of the monthly loop body.
MonthKey(t) == SprintfMonth(DateOf(t))

\* The bounds recorded for a bucket.
Bounds(start, end) == [start |-> start, end |-> end]

\* The end of the week one day short.
EndOfWeek_FiveDays(startOfWeek) == AddDate(startOfWeek, 0, 0, 5)

\* endOfWeek := startOfWeek.AddDate(0, 0, 6)
EndOfWeek(startOfWeek) == AddDate(startOfWeek, 0, 0, 6)

\* startOfWeek and endOfWeek of the weekly loop body.
WeekBoundsFrom(startOfWeek) == Bounds(startOfWeek, EndOfWeek(startOfWeek))

WeekBounds(t) == WeekBoundsFrom(getStartOfISOWeek(t))

\* The end of the month taken as the first day of the next month.
EndOfMonth_NextMonth(startOfMonth) == AddDate(startOfMonth, 0, 1, 0)

\* endOfMonth := startOfMonth.AddDate(0, 1, -1)
EndOfMonth(startOfMonth) == AddDate(startOfMonth, 0, 1, -1)

\* startOfMonth and endOfMonth of the monthly loop body.
MonthBoundsFrom(startOfMonth) == Bounds(startOfMonth, EndOfMonth(startOfMonth))

\* startOfMonth := time.Date(year, month, 1, 0, 0, 0, 0, pr.MergedAt.Location())
StartOfMonth(c) == Date(c.year, c.month, 1, 0)

MonthBounds(t) == MonthBoundsFrom(StartOfMonth(DateOf(t)))

\* The empty maps before a grouping loop: prs, startDates, endDates.
NoGroups == [prs |-> <<>>, start |-> <<>>, end |-> <<>>]

\* The loop body without its skip of unmerged pull requests.
SkipPR_Never(pr) == FALSE

\* `if pr.MergedAt.IsZero() { continue }`: whether the loop body skips pr.
SkipPR(pr) == IsZero(pr.MergedAt)

\* The map m with m[k] set to v.
MapPut(m, k, v) == [x \in DOMAIN m \cup {k} |-> IF x = k THEN v ELSE m[x]]

\* The loop body assigning []*api.PRMetrics{pr} to an existing key instead
\* of appending.
GroupStep_Overwrite(g, pr, k, b) ==
    IF k \in DOMAIN g.prs
    THEN [g EXCEPT !.prs = MapPut(g.prs, k, <<pr>>)]
    ELSE [prs   |-> MapPut(g.prs, k, <<pr>>),
          start |-> MapPut(g.start, k, b.start),
          end   |-> MapPut(g.end, k, b.end)]

\* The loop body creating the empty group for a new key without appending pr to
\* it.
GroupStep_FirstDropped(g, pr, k, b) ==
    IF k \in DOMAIN g.prs
    THEN [g EXCEPT !.prs = MapPut(g.prs, k, Append(g.prs[k], pr))]
    ELSE [prs   |-> MapPut(g.prs, k, <<>>),
          start |-> MapPut(g.start, k, b.start),
          end   |-> MapPut(g.end, k, b.end)]

\* One iteration of a grouping loop for pr under key k with the bounds b.
GroupStep(g, pr, k, b) ==
    IF k \in DOMAIN g.prs
    THEN [g EXCEPT !.prs = MapPut(g.prs, k, Append(g.prs[k], pr))]
    ELSE [prs   |-> MapPut(g.prs, k, <<pr>>),
          start |-> MapPut(g.start, k, b.start),
          end   |-> MapPut(g.end, k, b.end)]

\* The weekly grouping loop over metrics[1..n].
RECURSIVE WeeklyGroups(_, _)
WeeklyGroups(metrics, n) ==
    IF n = 0 THEN NoGroups
    ELSE LET g  == WeeklyGroups(metrics, n - 1)
             pr == metrics[n]
         IN  IF SkipPR(pr) THEN g
             ELSE GroupStep(g, pr, WeekKey(pr.MergedAt), WeekBounds(pr.MergedAt))

\* The monthly grouping loop over metrics[1..n].
RECURSIVE MonthlyGroups(_, _)
MonthlyGroups(metrics, n) ==
    IF n = 0 THEN NoGroups
    ELSE LET g  == MonthlyGroups(metrics, n - 1)
             pr == metrics[n]
         IN  IF SkipPR(pr) THEN g
             ELSE GroupStep(g, pr, MonthKey(pr.MergedAt), MonthBounds(pr.MergedAt))

\* One pass of insertion by Period.
RECURSIVE InsertByPeriod(_, _)
InsertByPeriod(x, s) ==
    IF s = <<>> THEN <<x>>
    ELSE IF StrLess(x.Period, Head(s).Period) THEN <<x>> \o s
    ELSE <<Head(s)>> \o InsertByPeriod(x, Tail(s))

\* sort.Slice(metrics, func(i, j) bool { return metrics[i].Period < metrics[j].Period })
RECURSIVE SortByPeriod(_)
SortByPeriod(s) ==
    IF s = <<>> THEN <<>> ELSE InsertByPeriod(Head(s), SortByPeriod(Tail(s)))

\* The orders in which `for key, prs := range m` may visit the keys of a map.
RECURSIVE RangeOrders(_)
RangeOrders(keys) ==
    IF keys = {} THEN {<<>>}
    ELSE UNION {{<<k>> \o rest : rest \in RangeOrders(keys \ {k})} : k \in keys}

\* The second loop without the sort.
Summarize_Unsorted(g, order) ==
    [i \in 1..Len(order) |->
        calculateAggregatedMetrics(order[i], g.start[order[i]], g.end[order[i]],
                                   g.prs[order[i]])]

\* The second loop and the sort: one bucket per key, appended in the order the map
\* is ranged over, then sorted by Period.
Summarize(g, order) ==
    SortByPeriod([i \in 1..Len(order) |->
        calculateAggregatedMetrics(order[i], g.start[order[i]], g.end[order[i]],
                                   g.prs[order[i]])])

\* CalculateWeeklyAggregatedMetrics: what it returns when the map is ranged over in
\* `order`, and the map weeklyPRs it built.
CalculateWeeklyAggregatedMetrics(metrics, order) ==
    LET g == WeeklyGroups(metrics, Len(metrics))
    IN  [metrics |-> Summarize(g, order), err |-> "nil", groups |-> g.prs]

\* The monthly aggregation reporting an error when no pull request was merged.
CalculateMonthlyAggregatedMetrics_ErrOnEmpty(metrics, order) ==
    LET g == MonthlyGroups(metrics, Len(metrics))
    IN  [metrics |-> Summarize(g, order),
         err     |-> IF DOMAIN g.prs = {} THEN "no merged pull requests" ELSE "nil",
         groups  |-> g.prs]

\* CalculateMonthlyAggregatedMetrics, likewise.
CalculateMonthlyAggregatedMetrics(metrics, order) ==
    LET g == MonthlyGroups(metrics, Len(metrics))
    IN  [metrics |-> Summarize(g, order), err |-> "nil", groups |-> g.prs]

\* The keys of the map the weekly (monthly) grouping loop builds.
WeekKeys(metrics) == DOMAIN WeeklyGroups(metrics, Len(metrics)).prs

MonthKeys(metrics) == DOMAIN MonthlyGroups(metrics, Len(metrics)).prs

(***************************************************************************)
(* Per-PR metrics calculator                                               *)
(***************************************************************************)
\* Duration.Hours() of the largest Duration, 2562047.788015215, to 1/100 hour.
MaxDurationHours == Rat(256204779, 100)

\* t.Sub(u).Hours(): the difference in hours; Sub returns the largest or the
\* smallest Duration when the instants are further apart than a Duration holds
\* (2^63 - 1 ns, which is 106751 days and some hours).
SubHours(t, u) ==
    IF t.day - u.day > 106751 THEN MaxDurationHours
    ELSE IF u.day - t.day > 106751 THEN Rat(-MaxDurationHours.num, MaxDurationHours.den)
    ELSE Rat((t.day - u.day) * 86400 + (t.sec - u.sec), 3600)

\* A *github.RepositoryCommit: dated says that Commit, Commit.Author and
\* Commit.Author.Date are all non-nil, Date is Commit.Author.GetDate().Time.
Commit(dated, d) == [dated |-> dated, Date |-> d]

\* A *github.PullRequestReview: GetState() and GetSubmittedAt().Time.
Review(state, submittedAt) == [State |-> state, SubmittedAt |-> submittedAt]

\* What one client call returns: err says that err != nil, and then the value
\* returned is nil.
Response(err, value) == [err |-> err, value |-> value]

\* A pull request as GetPullRequests delivers it, with what the source answers
\* to the four requests about it.  CreatedAt is never zero: GetPullRequests
\* drops a pull request whose CreatedAt is nil.
SourcePR(number, createdAt, mergedAt, details, commits, comments, reviews) ==
    [Number |-> number, CreatedAt |-> createdAt, MergedAt |-> mergedAt,
     details |-> details, commits |-> commits, comments |-> comments,
     reviews |-> reviews]

\* The fields of api.PRMetrics that the model keeps.
TimeFieldSet == {"CreatedAt", "MergedAt", "FirstCommitAt", "LastCommitAt", "FirstCommentAt"}

MetricsFieldSet == {"Number"} \cup TimeFieldSet \cup CountFieldSet \cup HoursFieldSet

\* metrics := api.PRMetrics{Number: ..., CreatedAt: ..., MergedAt: ...}: every
\* other field has its zero value.
InitialMetrics(pr) ==
    [f \in MetricsFieldSet |->
        IF f = "Number" THEN pr.Number
        ELSE IF f = "CreatedAt" THEN pr.CreatedAt
        ELSE IF f = "MergedAt" THEN pr.MergedAt
        ELSE IF f \in TimeFieldSet THEN ZeroTime
        ELSE IF f \in CountFieldSet THEN 0
        ELSE RatZero]

\* The struct m after the assignments upd to some of its fields.
With(m, upd) == [f \in DOMAIN m |-> IF f \in DOMAIN upd THEN upd[f] ELSE m[f]]

\* calculatePRDetails
calculatePRDetails(details) ==
    IF details.err
    THEN [additions |-> 0, deletions |-> 0, changedFiles |-> 0, err |-> TRUE]
    ELSE [additions |-> details.value.Additions, deletions |-> details.value.Deletions,
          changedFiles |-> details.value.ChangedFiles, err |-> FALSE]

\* The test counting only the commits after the creation.
DuringPR_StrictlyAfter(commitTime, createdAt) == Before(createdAt, commitTime)

\* `if !commitTime.Before(createdAt)`
DuringPR(commitTime, createdAt) == ~Before(commitTime, createdAt)

\* calculateCommitMetrics: commitsDuringPR after the loop has seen commits[1..n].
RECURSIVE CommitsDuringPR(_, _, _)
CommitsDuringPR(commits, createdAt, n) ==
    IF n = 0 THEN 0
    ELSE CommitsDuringPR(commits, createdAt, n - 1)
         + (IF commits[n].dated /\ DuringPR(commits[n].Date, createdAt) THEN 1 ELSE 0)

\* The author date of a commit, or the zero Time the result keeps without one.
AuthorDate(commit) == IF commit.dated THEN commit.Date ELSE ZeroTime

\* calculateCommitMetrics taking the creation for the first and last commit of
\* an empty list.
calculateCommitMetrics_Fallback(commits, createdAt) ==
    IF Len(commits) > 0
    THEN [CommitCount         |-> Len(commits),
          FirstCommitAt       |-> AuthorDate(commits[1]),
          LastCommitAt        |-> AuthorDate(commits[Len(commits)]),
          CommitCountDuringPR |-> CommitsDuringPR(commits, createdAt, Len(commits))]
    ELSE [CommitCount         |-> Len(commits),
          FirstCommitAt       |-> createdAt,
          LastCommitAt        |-> createdAt,
          CommitCountDuringPR |-> 0]

\* calculateCommitMetrics
calculateCommitMetrics(commits, createdAt) ==
    IF Len(commits) > 0
    THEN [CommitCount         |-> Len(commits),
          FirstCommitAt       |-> AuthorDate(commits[1]),
          LastCommitAt        |-> AuthorDate(commits[Len(commits)]),
          CommitCountDuringPR |-> CommitsDuringPR(commits, createdAt, Len(commits))]
    ELSE [CommitCount         |-> Len(commits),
          FirstCommitAt       |-> ZeroTime,
          LastCommitAt        |-> ZeroTime,
          CommitCountDuringPR |-> 0]

\* FirstCommentAt taken from the earliest comment instead of the first.
calculateCommentMetrics_Earliest(comments) ==
    [CommentCount   |-> Len(comments),
     FirstCommentAt |->
         IF Len(comments) > 0
         THEN CHOOSE t \in Range(comments) : \A u \in Range(comments) : ~Before(u, t)
         ELSE ZeroTime]

\* calculateCommentMetrics
calculateCommentMetrics(comments) ==
    [CommentCount   |-> Len(comments),
     FirstCommentAt |-> IF Len(comments) > 0 THEN comments[1] ELSE ZeroTime]

\* The approvals counted, and the first approval of the list taken as the
\* earliest whatever the later ones say.
Approvals_FirstInList(reviews, n) ==
    LET approved == {k \in 1..n : reviews[k].State = "APPROVED"}
    IN  [approvalCount   |-> Cardinality(approved),
         firstApprovalAt |->
             IF approved = {} THEN ZeroTime
             ELSE reviews[CHOOSE k \in approved : \A j \in approved : k <= j].SubmittedAt]

\* calculateReviewMetrics: approvalCount and firstApprovalAt after the loop has
\* seen reviews[1..n].
RECURSIVE Approvals(_, _)
Approvals(reviews, n) ==
    IF n = 0 THEN [approvalCount |-> 0, firstApprovalAt |-> ZeroTime]
    ELSE LET before == Approvals(reviews, n - 1)
         IN  IF reviews[n].State = "APPROVED"
             THEN [approvalCount   |-> before.approvalCount + 1,
                   firstApprovalAt |->
                       IF \/ IsZero(before.firstApprovalAt)
                          \/ Before(reviews[n].SubmittedAt, before.firstApprovalAt)
                       THEN reviews[n].SubmittedAt
                       ELSE before.firstApprovalAt]
             ELSE before

\* calculateReviewMetrics, given what GetPRReviews returns.
calculateReviewMetrics(reviews) ==
    IF reviews.err
    THEN [ReviewCount |-> 0, ApprovalCount |-> 0, FirstApprovalAt |-> ZeroTime, err |-> TRUE]
    ELSE [ReviewCount     |-> Len(reviews.value),
          ApprovalCount   |-> Approvals(reviews.value, Len(reviews.value)).approvalCount,
          FirstApprovalAt |-> Approvals(reviews.value, Len(reviews.value)).firstApprovalAt,
          err             |-> FALSE]

\* The two fields with CreateToLastCommitHours subtracted the other way round.
CommitToCreateHours_Swapped(createdAt, firstCommitAt, lastCommitAt) ==
    [FirstCommitToCreateHours |->
         IF ~IsZero(firstCommitAt) THEN SubHours(createdAt, firstCommitAt) ELSE RatZero,
     CreateToLastCommitHours |->
         IF ~IsZero(lastCommitAt) THEN SubHours(createdAt, lastCommitAt) ELSE RatZero]

\* calculateTimeMetrics: the two fields between the commits and the creation.
CommitToCreateHours(createdAt, firstCommitAt, lastCommitAt) ==
    [FirstCommitToCreateHours |->
         IF ~IsZero(firstCommitAt) THEN SubHours(createdAt, firstCommitAt) ELSE RatZero,
     CreateToLastCommitHours |->
         IF ~IsZero(lastCommitAt) THEN SubHours(lastCommitAt, createdAt) ELSE RatZero]

\* The three merge fields without the test of mergedAt.
MergeHours_Unguarded(createdAt, mergedAt, firstCommitAt, lastCommitAt) ==
    [FirstCommitToMergeHours |->
         IF ~IsZero(firstCommitAt) THEN SubHours(mergedAt, firstCommitAt) ELSE RatZero,
     LastCommitToMergeHours |->
         IF ~IsZero(lastCommitAt) THEN SubHours(mergedAt, lastCommitAt) ELSE RatZero,
     TotalPRLifetimeHours |-> SubHours(mergedAt, createdAt)]

\* The three merge fields with the lifetime counted from the first commit.
MergeHours_FromFirstCommit(createdAt, mergedAt, firstCommitAt, lastCommitAt) ==
    IF ~IsZero(mergedAt)
    THEN [FirstCommitToMergeHours |->
              IF ~IsZero(firstCommitAt) THEN SubHours(mergedAt, firstCommitAt) ELSE RatZero,
          LastCommitToMergeHours |->
              IF ~IsZero(lastCommitAt) THEN SubHours(mergedAt, lastCommitAt) ELSE RatZero,
          TotalPRLifetimeHours |-> SubHours(mergedAt, firstCommitAt)]
    ELSE [FirstCommitToMergeHours |-> RatZero,
          LastCommitToMergeHours |-> RatZero,
          TotalPRLifetimeHours |-> RatZero]

\* calculateTimeMetrics: the three fields under `if !mergedAt.IsZero()`.
MergeHours(createdAt, mergedAt, firstCommitAt, lastCommitAt) ==
    IF ~IsZero(mergedAt)
    THEN [FirstCommitToMergeHours |->
              IF ~IsZero(firstCommitAt) THEN SubHours(mergedAt, firstCommitAt) ELSE RatZero,
          LastCommitToMergeHours |->
              IF ~IsZero(lastCommitAt) THEN SubHours(mergedAt, lastCommitAt) ELSE RatZero,
          TotalPRLifetimeHours |-> SubHours(mergedAt, createdAt)]
    ELSE [FirstCommitToMergeHours |-> RatZero,
          LastCommitToMergeHours  |-> RatZero,
          TotalPRLifetimeHours    |-> RatZero]

\* calculateTimeMetrics: the field up to the first comment.
FirstCommentHours(createdAt, firstCommentAt) ==
    [CreatedToFirstCommentHours |->
         IF ~IsZero(firstCommentAt) THEN SubHours(firstCommentAt, createdAt) ELSE RatZero]

\* calculateTimeMetrics
calculateTimeMetrics(createdAt, mergedAt, firstCommitAt, lastCommitAt, firstCommentAt) ==
    CommitToCreateHours(createdAt, firstCommitAt, lastCommitAt)
        @@ MergeHours(createdAt, mergedAt, firstCommitAt, lastCommitAt)
        @@ FirstCommentHours(createdAt, firstCommentAt)

\* The author dates of the commits that have one, in list order.
RECURSIVE CommitTimes(_, _)
CommitTimes(commits, n) ==
    IF n = 0 THEN <<>>
    ELSE IF commits[n].dated THEN Append(CommitTimes(commits, n - 1), commits[n].Date)
    ELSE CommitTimes(commits, n - 1)

\* Insertion of t into the ascending times s.
RECURSIVE InsertTime(_, _)
InsertTime(t, s) ==
    IF s = <<>> THEN <<t>>
    ELSE IF Before(t, Head(s)) THEN <<t>> \o s
    ELSE <<Head(s)>> \o InsertTime(t, Tail(s))

\* The times left in the order they were appended in.
SortTimes_Unsorted(s) == s

\* sort.Slice(times, func(i, j int) bool { return times[i].Before(times[j]) })
RECURSIVE SortTimes(_)
SortTimes(s) == IF s = <<>> THEN <<>> ELSE InsertTime(Head(s), SortTimes(Tail(s)))

\* The gap that ends at the last of the times, whatever the earlier gaps.
MaxGap_LastGap(times, n) ==
    IF n <= 1 THEN RatZero ELSE SubHours(times[n], times[n - 1])

\* The loop `for i := 0; i < len(times)-1; i++`: the maximum after the gaps
\* that end at times[2..n], starting from the zero float64.
RECURSIVE MaxGap(_, _)
MaxGap(times, n) ==
    IF n <= 1 THEN RatZero
    ELSE LET before == MaxGap(times, n - 1)
             gap    == SubHours(times[n], times[n - 1])
         IN  IF RatLess(before, gap) THEN gap ELSE before

\* calculateWaitingPeriods
calculateWaitingPeriods(commits, comments) ==
    [MaxNoActivityPeriodHours |->
         MaxGap(SortTimes(CommitTimes(commits, Len(commits)) \o comments),
                Len(CommitTimes(commits, Len(commits)) \o comments)),
     MaxNoCommentPeriodHours |-> MaxGap(SortTimes(comments), Len(comments)),
     MaxNoCommitPeriodHours |->
         MaxGap(SortTimes(CommitTimes(commits, Len(commits))),
                Len(CommitTimes(commits, Len(commits))))]

\* What CalculatePRMetrics returns: a nil pointer or &metrics, and err.
Return(isNil, err) == [nil |-> isNil, err |-> err]

\* CalculatePRMetrics has not returned.
NoReturn == Return(TRUE, "none")

\* The locals of CalculatePRMetrics after one of its parts: metrics, commits,
\* comments, what it returns if it returns there, and the part it goes on with.
Locals(m, commits, comments, r, next) ==
    [metrics |-> m, commits |-> commits, comments |-> comments, ret |-> r, next |-> next]

\* The details part going on with the commits when the request fails.
StepDetails_Degrade(l, details) ==
    IF calculatePRDetails(details).err
    THEN Locals(l.metrics, l.commits, l.comments, NoReturn, "commits")
    ELSE Locals(With(l.metrics, [Additions    |-> calculatePRDetails(details).additions,
                                 Deletions    |-> calculatePRDetails(details).deletions,
                                 ChangedFiles |-> calculatePRDetails(details).changedFiles]),
                l.commits, l.comments, NoReturn, "commits")

\* CalculatePRMetrics, lines 44-51: the details.
StepDetails(l, details) ==
    IF calculatePRDetails(details).err
    THEN Locals(l.metrics, l.commits, l.comments, Return(TRUE, "details"), "returned")
    ELSE Locals(With(l.metrics, [Additions    |-> calculatePRDetails(details).additions,
                                 Deletions    |-> calculatePRDetails(details).deletions,
                                 ChangedFiles |-> calculatePRDetails(details).changedFiles]),
                l.commits, l.comments, NoReturn, "commits")

\* The commits part going on without commits when the request fails.
StepCommits_Degrade(l, commits) ==
    IF commits.err
    THEN Locals(l.metrics, <<>>, l.comments, NoReturn, "comments")
    ELSE Locals(With(l.metrics, calculateCommitMetrics(commits.value, l.metrics.CreatedAt)),
                commits.value, l.comments, NoReturn, "comments")

\* CalculatePRMetrics, lines 53-62: the commits.
StepCommits(l, commits) ==
    IF commits.err
    THEN Locals(l.metrics, l.commits, l.comments, Return(TRUE, "commits"), "returned")
    ELSE Locals(With(l.metrics, calculateCommitMetrics(commits.value, l.metrics.CreatedAt)),
                commits.value, l.comments, NoReturn, "comments")

\* The comments part returning the error when the request fails.
StepComments_Fatal(l, comments) ==
    IF comments.err
    THEN Locals(l.metrics, l.commits, <<>>, Return(TRUE, "comments"), "returned")
    ELSE Locals(With(l.metrics, calculateCommentMetrics(comments.value)),
                l.commits, comments.value, NoReturn, "reviews")

\* CalculatePRMetrics, lines 64-73: the comments; on an error comments is nil.
StepComments(l, comments) ==
    IF comments.err
    THEN Locals(l.metrics, l.commits, <<>>, NoReturn, "reviews")
    ELSE Locals(With(l.metrics, calculateCommentMetrics(comments.value)),
                l.commits, comments.value, NoReturn, "reviews")

\* CalculatePRMetrics, lines 75-88: the reviews.
StepReviews(l, reviews) ==
    IF calculateReviewMetrics(reviews).err
    THEN Locals(l.metrics, l.commits, l.comments, NoReturn, "time")
    ELSE Locals(With(l.metrics,
                     [ReviewCount   |-> calculateReviewMetrics(reviews).ReviewCount,
                      ApprovalCount |-> calculateReviewMetrics(reviews).ApprovalCount,
                      TimeToApprovalHours |->
                          IF ~IsZero(calculateReviewMetrics(reviews).FirstApprovalAt)
                          THEN SubHours(calculateReviewMetrics(reviews).FirstApprovalAt,
                                        l.metrics.CreatedAt)
                          ELSE l.metrics.TimeToApprovalHours]),
                l.commits, l.comments, NoReturn, "time")

\* The waiting periods computed whatever the two lists hold.
WaitingPeriods_Unguarded(m, commits, comments) ==
    With(m, calculateWaitingPeriods(commits, comments))

\* CalculatePRMetrics, lines 105-111: the waiting periods.
WaitingPeriods(m, commits, comments) ==
    IF Len(commits) > 0 /\ Len(comments) > 0
    THEN With(m, calculateWaitingPeriods(commits, comments))
    ELSE m

\* CalculatePRMetrics, lines 90-116: the durations, the waiting periods and
\* `return &metrics, nil`.
StepTime(l) ==
    Locals(WaitingPeriods(With(l.metrics,
                               calculateTimeMetrics(l.metrics.CreatedAt, l.metrics.MergedAt,
                                                    l.metrics.FirstCommitAt,
                                                    l.metrics.LastCommitAt,
                                                    l.metrics.FirstCommentAt)),
                          l.commits, l.comments),
           l.commits, l.comments, Return(FALSE, "nil"), "returned")

\* CalculatePRMetrics from the part l.next on, to its return.
RECURSIVE RunFrom(_, _)
RunFrom(l, pr) ==
    IF l.next = "returned" THEN l
    ELSE IF l.next = "details" THEN RunFrom(StepDetails(l, pr.details), pr)
    ELSE IF l.next = "commits" THEN RunFrom(StepCommits(l, pr.commits), pr)
    ELSE IF l.next = "comments" THEN RunFrom(StepComments(l, pr.comments), pr)
    ELSE IF l.next = "reviews" THEN RunFrom(StepReviews(l, pr.reviews), pr)
    ELSE RunFrom(StepTime(l), pr)

\* CalculatePRMetrics
CalculatePRMetrics(pr) ==
    RunFrom(Locals(InitialMetrics(pr), <<>>, <<>>, NoReturn, "details"), pr)

\* The loop body appending whatever the call left in its record.
Collect_Always(all, r, m) == Append(all, m)

\* CalculateAllPRMetrics, lines 371-377: allMetrics after the call for one pull
\* request has returned r with the record m.
Collect(all, r, m) == IF r.err # "nil" THEN all ELSE Append(all, m)

(***************************************************************************)
(* Per-PR batch                                                            *)
(***************************************************************************)
\* A pull request of the batch, as far as the batch loop and the aggregation see
\* it: whether CalculatePRMetrics ends with a fatal error for it (the details or
\* the commits request failed) and, if not, the record it returns.
PullRequest(fatal, metrics) == [fatal |-> fatal, metrics |-> metrics]

\* CalculateAllPRMetrics over prs[1..n]: a failed pull request is logged and
\* skipped, the record of any other is appended.
RECURSIVE AllPRMetrics(_, _)
AllPRMetrics(batch, n) ==
    IF n = 0 THEN <<>>
    ELSE IF batch[n].fatal THEN AllPRMetrics(batch, n - 1)
    ELSE Append(AllPRMetrics(batch, n - 1), batch[n].metrics)

\* CalculateAllPRMetrics
CalculateAllPRMetrics(batch) == [metrics |-> AllPRMetrics(batch, Len(batch)), err |-> "nil"]

(***************************************************************************)
(* Bounded inputs                                                          *)
(***************************************************************************)
\* Most pull requests in a batch.
MaxPRs == 3

\* Longest slice handed to a median function.
MaxLen == 4

\* The numbers a slice handed to a median function holds.
MedianInputs == 1..4

\* Days covered by the arguments of getStartOfISOWeek, from 2024-12-23 on.
SpanDays == 20

\* Clock times of the arguments of getStartOfISOWeek: 00:00:00, 00:00:01,
\* 12:00:00 and 23:59:59.
ClockInputs == {0, 1, 43200, 86399}

WeekDates ==
    {[day |-> Date(2024, 12, 23, 0).day + d, sec |-> s] : d \in 0..SpanDays, s \in ClockInputs}

\* A PRMetrics record merged at mergedAt whose CommitCount is c and whose
\* TotalPRLifetimeHours is h; the other count and hours fields are set to values
\* derived from c and h that differ from field to field (zero, negative and
\* fractional values among them).
MkPR(mergedAt, c, h) ==
    [f \in {"MergedAt"} \cup CountFieldSet \cup HoursFieldSet |->
        IF f = "MergedAt" THEN mergedAt
        ELSE IF f \in CountFieldSet
        THEN LET i == CHOOSE k \in DOMAIN CountFields : CountFields[k] = f
             IN  (c + i - 1) % 6
        ELSE LET j == CHOOSE k \in DOMAIN HoursFields : HoursFields[k] = f
             IN  Rat(h - 10 * ((j - 1) % 3), 1 + ((j + 1) % 2))]

\* What stands for the nil *api.PRMetrics returned with an error: never read.
NilMetrics == MkPR(ZeroTime, 0, 0)

\* Pull requests merged on both sides of week, month and year ends, on a Sunday
\* and on a last day of a month at and after 00:00:00; one never merged, one
\* whose computation fails.
CalendarInputs ==
    { PullRequest(FALSE, MkPR(ZeroTime, 2, 7)),
      PullRequest(FALSE, MkPR(Date(2024, 12, 29, 43200), 1, 10)),
      PullRequest(FALSE, MkPR(Date(2024, 12, 30, 0), 3, 0)),
      PullRequest(FALSE, MkPR(Date(2024, 12, 31, 86399), 5, 20)),
      PullRequest(FALSE, MkPR(Date(2025, 1, 5, 0), 0, 30)),
      PullRequest(FALSE, MkPR(Date(2025, 2, 28, 82800), 4, -10)),
      PullRequest(FALSE, MkPR(Date(2025, 3, 3, 32400), 2, 40)),
      PullRequest(TRUE, NilMetrics) }

\* Pull requests of one week (one of the week after) with varied values; two
\* never merged.
ValueInputs ==
    { PullRequest(FALSE, MkPR(Date(2025, 1, 1, 28800), 5, 10)),
      PullRequest(FALSE, MkPR(Date(2025, 1, 1, 28800), 3, 20)),
      PullRequest(FALSE, MkPR(Date(2025, 1, 2, 36000), 1, 30)),
      PullRequest(FALSE, MkPR(Date(2025, 1, 2, 36000), 3, 0)),
      PullRequest(FALSE, MkPR(Date(2025, 1, 3, 0), 0, -10)),
      PullRequest(FALSE, MkPR(Date(2025, 1, 8, 0), 1, 20)),
      PullRequest(FALSE, MkPR(ZeroTime, 1, 30)),
      PullRequest(FALSE, MkPR(ZeroTime, 4, 50)) }

\* Pull requests merged on the first and the last day of a 29-day and of a 30-day
\* month.
MonthInputs ==
    { PullRequest(FALSE, MkPR(Date(2024, 2, 1, 0), 3, 0)),
      PullRequest(FALSE, MkPR(Date(2024, 2, 29, 43200), 1, 10)),
      PullRequest(FALSE, MkPR(Date(2025, 4, 1, 32400), 2, 40)),
      PullRequest(FALSE, MkPR(Date(2025, 4, 30, 86399), 5, 20)) }

Families == {"calendar", "values", "months"}

Inputs(fam) ==
    IF fam = "calendar" THEN CalendarInputs
    ELSE IF fam = "values" THEN ValueInputs
    ELSE MonthInputs

\* All sequences over S of length at most n.
RECURSIVE SeqsUpTo(_, _)
SeqsUpTo(S, n) ==
    IF n = 0 THEN {<<>>}
    ELSE LET shorter == SeqsUpTo(S, n - 1)
         IN  shorter \cup {Append(q, x) : q \in {r \in shorter : Len(r) = n - 1}, x \in S}

(***************************************************************************)
(* main(): fetch, per-PR batch, weekly and monthly aggregation             *)
(***************************************************************************)
PipelineIdle ==
    /\ pc = "idle"
    /\ prs = <<>>
    /\ prMetrics = NoResult
    /\ weeklyPRs = NoResult
    /\ weeklyMetrics = NoResult
    /\ weeklyErr = NoResult
    /\ monthlyPRs = NoResult
    /\ monthlyMetrics = NoResult
    /\ monthlyErr = NoResult
    /\ family = NoResult

\* No second run of main().
OrderIdle == permMetrics = <<>> /\ permWeekly = <<>> /\ permMonthly = <<>>

CalcIdle ==
    /\ idx = 0
    /\ pcPR = "idle"
    /\ inflight = "none"
    /\ curMetrics = NilMetrics
    /\ curCommits = <<>>
    /\ curComments = <<>>
    /\ ret = NoReturn
    /\ allMetrics = <<>>
    /\ calcErr = "none"
    /\ requests = <<>>

MedianIdle ==
    /\ intValues = <<>>
    /\ values = <<>>
    /\ original = <<>>
    /\ medianResult = NoResult
    /\ medianCall = "idle"

WeekIdle ==
    /\ date = ZeroTime
    /\ weekStart = ZeroTime
    /\ weekCall = "idle"

Init ==
    /\ pc = "fetch"
    /\ prs = <<>>
    /\ prMetrics = NoResult
    /\ weeklyPRs = NoResult
    /\ weeklyMetrics = NoResult
    /\ weeklyErr = NoResult
    /\ monthlyPRs = NoResult
    /\ monthlyMetrics = NoResult
    /\ monthlyErr = NoResult
    /\ family \in Families
    /\ MedianIdle
    /\ WeekIdle
    /\ CalcIdle
    /\ OrderIdle

\* client.GetPullRequests: the source delivers one more pull request.
FetchPR ==
    /\ pc = "fetch"
    /\ Len(prs) < MaxPRs
    /\ \E pr \in Inputs(family) : prs' = Append(prs, pr)
    /\ UNCHANGED <<pc, prMetrics, weeklyPRs, weeklyMetrics, weeklyErr, monthlyPRs,
                   monthlyMetrics, monthlyErr, family>>
    /\ UNCHANGED <<medianVars, weekVars, calcVars, orderVars>>

\* main(): prMetrics, err := calculator.CalculateAllPRMetrics(owner, repoName, prs)
RunCalculateAllPRMetrics ==
    /\ pc = "fetch"
    /\ prMetrics' = CalculateAllPRMetrics(prs).metrics
    /\ pc' = "weekly"
    /\ UNCHANGED <<prs, weeklyPRs, weeklyMetrics, weeklyErr, monthlyPRs, monthlyMetrics,
                   monthlyErr, family>>
    /\ UNCHANGED <<medianVars, weekVars, calcVars, orderVars>>

\* main(): weeklyMetrics, err := calculator.CalculateWeeklyAggregatedMetrics(prMetrics)
RunCalculateWeekly ==
    /\ pc = "weekly"
    /\ \E order \in RangeOrders(WeekKeys(prMetrics)) :
          LET r == CalculateWeeklyAggregatedMetrics(prMetrics, order)
          IN  /\ weeklyMetrics' = r.metrics
              /\ weeklyErr' = r.err
              /\ weeklyPRs' = r.groups
    /\ pc' = "monthly"
    /\ UNCHANGED <<prs, prMetrics, monthlyPRs, monthlyMetrics, monthlyErr, family>>
    /\ UNCHANGED <<medianVars, weekVars, calcVars, orderVars>>

\* main(): monthlyMetrics, err := calculator.CalculateMonthlyAggregatedMetrics(prMetrics)
RunCalculateMonthly ==
    /\ pc = "monthly"
    /\ \E order \in RangeOrders(MonthKeys(prMetrics)) :
          LET r == CalculateMonthlyAggregatedMetrics(prMetrics, order)
          IN  /\ monthlyMetrics' = r.metrics
              /\ monthlyErr' = r.err
              /\ monthlyPRs' = r.groups
    /\ pc' = "done"
    /\ UNCHANGED <<prs, prMetrics, weeklyPRs, weeklyMetrics, weeklyErr, family>>
    /\ UNCHANGED <<medianVars, weekVars, calcVars, orderVars>>

Next ==
    \/ FetchPR
    \/ RunCalculateAllPRMetrics
    \/ RunCalculateWeekly
    \/ RunCalculateMonthly

Spec == Init /\ [][Next]_vars

(***************************************************************************)
(* The median functions applied to bounded slices                          *)
(***************************************************************************)
InitMedian ==
    /\ PipelineIdle
    /\ WeekIdle
    /\ CalcIdle
    /\ OrderIdle
    /\ intValues \in SeqsUpTo(MedianInputs, MaxLen)
    /\ values = [i \in 1..Len(intValues) |-> Float64(intValues[i])]
    /\ original = values
    /\ medianResult = NoResult
    /\ medianCall = "none"

\* A caller evaluates calculateMedianInt(intValues).
CallMedianInt ==
    /\ medianCall = "none"
    /\ medianResult' = calculateMedianInt(intValues)
    /\ medianCall' = "int"
    /\ UNCHANGED <<intValues, values, original>>
    /\ UNCHANGED <<pipelineVars, weekVars, calcVars, orderVars>>

\* A caller evaluates calculateMedianFloat(values), which sorts values in place.
CallMedianFloat ==
    /\ medianCall = "none"
    /\ medianResult' = calculateMedianFloat(values)
    /\ values' = SortFloat64s(values)
    /\ medianCall' = "float"
    /\ UNCHANGED <<intValues, original>>
    /\ UNCHANGED <<pipelineVars, weekVars, calcVars, orderVars>>

NextMedian == CallMedianInt \/ CallMedianFloat

SpecMedian == InitMedian /\ [][NextMedian]_vars

(***************************************************************************)
(* getStartOfISOWeek applied to bounded dates                              *)
(***************************************************************************)
InitWeek ==
    /\ PipelineIdle
    /\ MedianIdle
    /\ CalcIdle
    /\ OrderIdle
    /\ date \in WeekDates
    /\ weekStart = ZeroTime
    /\ weekCall = "none"

\* A caller evaluates getStartOfISOWeek(date).
CallGetStartOfISOWeek ==
    /\ weekCall = "none"
    /\ weekStart' = getStartOfISOWeek(date)
    /\ weekCall' = "called"
    /\ UNCHANGED date
    /\ UNCHANGED <<pipelineVars, medianVars, calcVars, orderVars>>

NextWeek == CallGetStartOfISOWeek

SpecWeek == InitWeek /\ [][NextWeek]_vars

(***************************************************************************)
(* main(): the batch loop of CalculateAllPRMetrics, call by call, and the  *)
(* aggregation after it.  Each client call is one request to the source.   *)
(***************************************************************************)
\* Longest commit, comment or review list of a pull request.
MaxEvents == 2

\* An instant of Monday 2025-01-06.
Clock(h, m) == [day |-> Date(2025, 1, 6, 0).day, sec |-> h * 3600 + m * 60]

\* Every pull request is created at 10:00.
CreatedInput == Clock(10, 0)

\* Never merged; merged before the creation, at the creation, and the next day.
MergeInputs == {ZeroTime, Clock(9, 0), Clock(10, 0), Clock(32, 0)}

\* Commits before, at and after the creation, and one without an author date.
CommitInputs ==
    {Commit(TRUE, Clock(9, 0)), Commit(TRUE, Clock(10, 0)), Commit(TRUE, Clock(11, 0)),
     Commit(FALSE, ZeroTime)}

\* Comments before the creation and at the time of a commit.
CommentInputs == {Clock(9, 30), Clock(11, 0)}

ReviewInputs ==
    {Review("APPROVED", Clock(11, 30)), Review("APPROVED", Clock(10, 30)),
     Review("COMMENTED", Clock(10, 15))}

\* A successful answer and a failed one.
Ok(value) == Response(FALSE, value)

Failed == Response(TRUE, <<>>)

SomeDetails == Ok([Additions |-> 12, Deletions |-> 3, ChangedFiles |-> 2])

\* Either answer to a request whose successful answer is value.
EitherAnswer(value) == {Ok(value), Failed}

\* One pull request with every timeline of commits and comments.
TimelineInputs ==
    {<<SourcePR(1, CreatedInput, m, SomeDetails, Ok(cs), Ok(ms), Ok(<<>>))>> :
        m \in MergeInputs,
        cs \in SeqsUpTo(CommitInputs, MaxEvents),
        ms \in SeqsUpTo(CommentInputs, MaxEvents)}

\* One pull request with every list of reviews.
ReviewsInputs ==
    {<<SourcePR(1, CreatedInput, m, SomeDetails, Ok(<<Commit(TRUE, Clock(9, 0))>>),
                Ok(<<>>), Ok(rs))>> :
        m \in {ZeroTime, Clock(32, 0)},
        rs \in SeqsUpTo(ReviewInputs, MaxEvents)}

\* One pull request with every pattern of failed requests.
FailureInputs ==
    {<<SourcePR(1, CreatedInput, m, d, cs, ms, rs)>> :
        m \in {ZeroTime, Clock(32, 0)},
        d \in {SomeDetails, Failed},
        cs \in EitherAnswer(<<Commit(TRUE, Clock(9, 0)), Commit(TRUE, Clock(11, 0))>>),
        ms \in EitherAnswer(<<Clock(9, 30), Clock(11, 0)>>),
        rs \in EitherAnswer(<<Review("COMMENTED", Clock(10, 15)),
                              Review("APPROVED", Clock(11, 30))>>)}

\* The pull requests of a batch: one that is computed, one never merged, one
\* whose details fail, one whose commits fail.
BatchPRs ==
    {SourcePR(1, CreatedInput, Clock(32, 0), SomeDetails,
              Ok(<<Commit(TRUE, Clock(9, 0))>>), Ok(<<Clock(11, 0)>>),
              Ok(<<Review("APPROVED", Clock(11, 30))>>)),
     SourcePR(2, CreatedInput, ZeroTime, SomeDetails,
              Ok(<<Commit(TRUE, Clock(11, 0))>>), Failed, Failed),
     SourcePR(3, CreatedInput, Clock(32, 0), Failed,
              Ok(<<Commit(TRUE, Clock(9, 0))>>), Ok(<<>>), Ok(<<>>)),
     SourcePR(4, CreatedInput, Clock(32, 0), SomeDetails, Failed, Ok(<<>>), Ok(<<>>))}

BatchInputs == SeqsUpTo(BatchPRs, MaxPRs)

\* One pull request merged 12 or 18 minutes after its creation, with commits 6
\* minutes before and 6 minutes after the creation: durations that are no binary
\* fractions of an hour.
MinuteInputs ==
    {<<SourcePR(1, CreatedInput, m, SomeDetails, Ok(cs), Ok(<<>>), Ok(<<>>))>> :
        m \in {Clock(10, 12), Clock(10, 18)},
        cs \in SeqsUpTo({Commit(TRUE, Clock(9, 54)), Commit(TRUE, Clock(10, 6))}, MaxEvents)}

CalcFamilies == {"timeline", "reviews", "failures", "batch", "minutes"}

CalcInputs(fam) ==
    IF fam = "timeline" THEN TimelineInputs
    ELSE IF fam = "reviews" THEN ReviewsInputs
    ELSE IF fam = "failures" THEN FailureInputs
    ELSE IF fam = "batch" THEN BatchInputs
    ELSE MinuteInputs

\* The four client calls of CalculatePRMetrics, in its order.
Calls == {"details", "commits", "comments", "reviews"}

\* An entry of the request log.
Request(n, call, ev) == [pr |-> n, call |-> call, ev |-> ev]

\* The locals of the running CalculatePRMetrics.
CurLocals == Locals(curMetrics, curCommits, curComments, ret, pcPR)

\* main() has called CalculateAllPRMetrics with the pull requests GetPullRequests
\* returned.
InitCalc ==
    /\ pc = "calc"
    /\ family \in CalcFamilies
    /\ prs \in CalcInputs(family)
    /\ prMetrics = NoResult
    /\ weeklyPRs = NoResult
    /\ weeklyMetrics = NoResult
    /\ weeklyErr = NoResult
    /\ monthlyPRs = NoResult
    /\ monthlyMetrics = NoResult
    /\ monthlyErr = NoResult
    /\ idx = 0
    /\ pcPR = "loop"
    /\ inflight = "none"
    /\ curMetrics = NilMetrics
    /\ curCommits = <<>>
    /\ curComments = <<>>
    /\ ret = NoReturn
    /\ allMetrics = <<>>
    /\ calcErr = "none"
    /\ requests = <<>>
    /\ MedianIdle
    /\ WeekIdle
    /\ OrderIdle

\* The locals of CalculatePRMetrics become l.
SetLocals(l) ==
    /\ curMetrics' = l.metrics
    /\ curCommits' = l.commits
    /\ curComments' = l.comments
    /\ ret' = l.ret
    /\ pcPR' = l.next

\* A loop that does not wait for the running call.
LoopReady_Always == TRUE

\* The range loop may take its next pull request: the call for the one before
\* has returned and its record is collected.
LoopReady == pcPR = "loop"

\* CalculateAllPRMetrics: `for i, pr := range prs` takes the next pull request and
\* calls CalculatePRMetrics, which initialises metrics.
BeginPR ==
    /\ pc = "calc"
    /\ LoopReady
    /\ idx < Len(prs)
    /\ idx' = idx + 1
    /\ SetLocals(Locals(InitialMetrics(prs[idx + 1]), <<>>, <<>>, NoReturn, "details"))
    /\ UNCHANGED <<inflight, allMetrics, calcErr, requests>>
    /\ UNCHANGED <<pipelineVars, medianVars, weekVars, orderVars>>

\* A client call issues its request.
IssueRequest ==
    /\ pc = "calc"
    /\ pcPR \in Calls
    /\ inflight = "none"
    /\ inflight' = pcPR
    /\ requests' = Append(requests, Request(idx, pcPR, "issue"))
    /\ UNCHANGED <<idx, pcPR, curMetrics, curCommits, curComments, ret, allMetrics, calcErr>>
    /\ UNCHANGED <<pipelineVars, medianVars, weekVars, orderVars>>

\* The request of the client call is answered and the call returns.
Answered(call) ==
    /\ pc = "calc"
    /\ pcPR = call
    /\ inflight = call
    /\ inflight' = "none"
    /\ requests' = Append(requests, Request(idx, call, "complete"))
    /\ UNCHANGED <<idx, allMetrics, calcErr>>
    /\ UNCHANGED <<pipelineVars, medianVars, weekVars, orderVars>>

\* c.calculatePRDetails(owner, repo, pr.GetNumber()) returns.
CompleteDetails ==
    /\ Answered("details")
    /\ SetLocals(StepDetails(CurLocals, prs[idx].details))

\* c.client.GetPRCommits(owner, repo, pr.GetNumber()) returns.
CompleteCommits ==
    /\ Answered("commits")
    /\ SetLocals(StepCommits(CurLocals, prs[idx].commits))

\* c.client.GetPRComments(owner, repo, pr.GetNumber()) returns.
CompleteComments ==
    /\ Answered("comments")
    /\ SetLocals(StepComments(CurLocals, prs[idx].comments))

\* c.calculateReviewMetrics(owner, repo, pr.GetNumber()) returns.
CompleteReviews ==
    /\ Answered("reviews")
    /\ SetLocals(StepReviews(CurLocals, prs[idx].reviews))

\* CalculatePRMetrics computes the durations and the waiting periods and returns.
ComputeTimeMetrics ==
    /\ pc = "calc"
    /\ pcPR = "time"
    /\ SetLocals(StepTime(CurLocals))
    /\ UNCHANGED <<idx, inflight, allMetrics, calcErr, requests>>
    /\ UNCHANGED <<pipelineVars, medianVars, weekVars, orderVars>>

\* CalculateAllPRMetrics: a failed pull request is logged and skipped, the record
\* of any other is appended.
CollectPR ==
    /\ pc = "calc"
    /\ pcPR = "returned"
    /\ allMetrics' = Collect(allMetrics, ret, curMetrics)
    /\ pcPR' = "loop"
    /\ UNCHANGED <<idx, inflight, curMetrics, curCommits, curComments, ret, calcErr, requests>>
    /\ UNCHANGED <<pipelineVars, medianVars, weekVars, orderVars>>

\* The aggregation may start: the range loop has taken every pull request.
LoopDone == LoopReady /\ idx = Len(prs)

\* CalculateAllPRMetrics: `return allMetrics, nil`, assigned to prMetrics in main().
ReturnAllPRMetrics ==
    /\ pc = "calc"
    /\ LoopDone
    /\ prMetrics' = allMetrics
    /\ calcErr' = "nil"
    /\ pc' = "weekly"
    /\ UNCHANGED <<prs, weeklyPRs, weeklyMetrics, weeklyErr, monthlyPRs, monthlyMetrics,
                   monthlyErr, family>>
    /\ UNCHANGED <<idx, pcPR, inflight, curMetrics, curCommits, curComments, ret,
                   allMetrics, requests>>
    /\ UNCHANGED <<medianVars, weekVars, orderVars>>

NextCalc ==
    \/ BeginPR
    \/ IssueRequest
    \/ CompleteDetails
    \/ CompleteCommits
    \/ CompleteComments
    \/ CompleteReviews
    \/ ComputeTimeMetrics
    \/ CollectPR
    \/ ReturnAllPRMetrics
    \/ RunCalculateWeekly
    \/ RunCalculateMonthly

SpecCalc == InitCalc /\ [][NextCalc]_vars

(***************************************************************************)
(* float64 arithmetic                                                      *)
(***************************************************************************)
\* float64 arithmetic as the hardware carries it out (IEEE 754 binary64, round to
\* nearest, ties to even), for the non-negative values the aggregation works on.  A
\* natural number is the sequence of its digits to the base Radix, least significant
\* first and without leading zero digits; a float64 is m * 2^e with a mantissa m of
\* exactly 53 bits, or zero.

Radix == 2 ^ 15

Max(a, b) == IF a < b THEN b ELSE a

Min(a, b) == IF a < b THEN a ELSE b

\* The digit of a at position j, 0 beyond its length.
Limb(a, j) == IF j \in DOMAIN a THEN a[j] ELSE 0

\* a without leading zero digits.
Normal(a) ==
    IF \A j \in DOMAIN a : a[j] = 0 THEN <<>>
    ELSE SubSeq(a, 1, CHOOSE j \in DOMAIN a :
                          a[j] # 0 /\ \A i \in DOMAIN a : i > j => a[i] = 0)

\* The natural number n < 2^31.
NatOf(n) == Normal(<<n % Radix, (n \div Radix) % Radix, n \div (Radix * Radix)>>)

\* a + b + c, from digit j on.
RECURSIVE AddFrom(_, _, _, _)
AddFrom(a, b, j, c) ==
    IF j > Max(Len(a), Len(b)) THEN (IF c = 0 THEN <<>> ELSE <<c>>)
    ELSE <<(Limb(a, j) + Limb(b, j) + c) % Radix>> \o
         AddFrom(a, b, j + 1, (Limb(a, j) + Limb(b, j) + c) \div Radix)

\* a + b
NatAdd(a, b) == AddFrom(a, b, 1, 0)

\* a * 2^k
ShiftLeft(a, k) ==
    Normal([j \in 1..(Len(a) + k \div 15 + 1) |->
        (Limb(a, j - k \div 15) % (2 ^ (15 - (k % 15)))) * (2 ^ (k % 15)) +
        Limb(a, j - k \div 15 - 1) \div (2 ^ (15 - (k % 15)))])

\* a \div 2^k
ShiftRight(a, k) ==
    Normal([j \in 1..Len(a) |->
        Limb(a, j + k \div 15) \div (2 ^ (k % 15)) +
        (Limb(a, j + k \div 15 + 1) % (2 ^ (k % 15))) * (2 ^ (15 - (k % 15)))])

\* The number of bits of a.
BitLen(a) ==
    IF a = <<>> THEN 0
    ELSE 15 * (Len(a) - 1) +
         (CHOOSE w \in 1..15 : 2 ^ (w - 1) <= a[Len(a)] /\ a[Len(a)] < 2 ^ w)

\* Bit i of a, bit 0 being the least significant.
Bit(a, i) == (Limb(a, i \div 15 + 1) \div (2 ^ (i % 15))) % 2

\* a < b for numbers of the same length.
NatLess(a, b) ==
    \E j \in DOMAIN a : a[j] < b[j] /\ \A i \in DOMAIN a : i > j => a[i] = b[i]

\* One digit d of a quotient put above the digits of rest.
DivPut(d, rest) == [q |-> rest.q \o <<d>>, r |-> rest.r]

\* The digits 1..j of a, with the remainder r carried in from the digits above
\* them, divided by n: the quotient q and the remainder r.
RECURSIVE DivFrom(_, _, _, _)
DivFrom(a, j, r, n) ==
    IF j = 0 THEN [q |-> <<>>, r |-> r]
    ELSE DivPut((r * Radix + a[j]) \div n,
                DivFrom(a, j - 1, (r * Radix + a[j]) % n, n))

\* The float64 m * 2^e.
B64(m, e) == [m |-> m, e |-> e]

\* +0
Zero64 == B64(<<>>, 0)

\* The 53 kept bits rounded up: the carry out of them makes the mantissa 2^53,
\* which is 2^52 at the next exponent.
RoundUp(kept, e) ==
    IF BitLen(NatAdd(kept, <<1>>)) = 54
    THEN B64(ShiftRight(NatAdd(kept, <<1>>), 1), e + 1)
    ELSE B64(NatAdd(kept, <<1>>), e)

\* The float64 nearest to n * 2^e, ties to even, for n > 0.
Round64(n, e) ==
    IF BitLen(n) <= 53
    THEN B64(ShiftLeft(n, 53 - BitLen(n)), e - (53 - BitLen(n)))
    ELSE IF Bit(n, BitLen(n) - 54) = 1 /\
            (Bit(n, BitLen(n) - 53) = 1 \/
             \E i \in 0..(BitLen(n) - 55) : Bit(n, i) = 1)
         THEN RoundUp(ShiftRight(n, BitLen(n) - 53), e + BitLen(n) - 53)
         ELSE B64(ShiftRight(n, BitLen(n) - 53), e + BitLen(n) - 53)

\* x + y
Add64(x, y) ==
    IF x = Zero64 THEN y
    ELSE IF y = Zero64 THEN x
    ELSE Round64(NatAdd(ShiftLeft(x.m, x.e - Min(x.e, y.e)),
                        ShiftLeft(y.m, y.e - Min(x.e, y.e))), Min(x.e, y.e))

\* float64(n)
FromInt64(n) == IF n = 0 THEN Zero64 ELSE Round64(NatOf(n), 0)

\* The quotient d.q with a sticky bit below it for the remainder d.r.
WithSticky(d) ==
    NatAdd(ShiftLeft(Normal(d.q), 1), IF d.r = 0 THEN <<>> ELSE <<1>>)

\* x / float64(n) for 1 <= n < 128: the exact quotient, rounded once.
DivInt64(x, n) ==
    IF x = Zero64 THEN Zero64
    ELSE Round64(WithSticky(DivFrom(ShiftLeft(x.m, 8), Len(ShiftLeft(x.m, 8)), 0, n)),
                 x.e - 9)

\* x < y
Less64(x, y) ==
    IF y = Zero64 THEN FALSE
    ELSE IF x = Zero64 THEN TRUE
    ELSE x.e < y.e \/ (x.e = y.e /\ NatLess(x.m, y.m))

\* time.Duration.Hours() of a duration of whole minutes:
\* float64(hour) + float64(nsec)/(60*60*1e9), the quotient being minutes/60 rounded.
Hours64(minutes) ==
    Add64(FromInt64(minutes \div 60), DivInt64(FromInt64(minutes % 60), 60))

\* `sum += v` over vals[1..n], in the order of the slice, starting from 0.
RECURSIVE SumFloat64(_, _)
SumFloat64(vals, n) ==
    IF n = 0 THEN Zero64 ELSE Add64(SumFloat64(vals, n - 1), vals[n])

\* One pass of insertion: x put into the ascending sequence s.
RECURSIVE InsertFloat64(_, _)
InsertFloat64(x, s) ==
    IF s = <<>> THEN <<x>>
    ELSE IF Less64(x, Head(s)) THEN <<x>> \o s
    ELSE <<Head(s)>> \o InsertFloat64(x, Tail(s))

\* sort.Float64s(values) on float64 values.
RECURSIVE Sorted64(_)
Sorted64(s) ==
    IF s = <<>> THEN <<>> ELSE InsertFloat64(Head(s), Sorted64(Tail(s)))

\* The median of a sorted non-empty slice.
MiddleOf(sorted) ==
    IF Len(sorted) % 2 = 0
    THEN DivInt64(Add64(At(sorted, (Len(sorted) \div 2) - 1),
                        At(sorted, Len(sorted) \div 2)), 2)
    ELSE At(sorted, Len(sorted) \div 2)

\* calculateMedianFloat on float64 values.
calculateMedianFloat64(vals) ==
    IF Len(vals) = 0 THEN Zero64 ELSE MiddleOf(Sorted64(vals))

\* calculateMedianInt on float64 values.
calculateMedianInt64(vals) ==
    IF Len(vals) = 0 THEN Zero64
    ELSE calculateMedianFloat64([i \in 1..Len(vals) |-> FromInt64(vals[i])])

\* The values of an hours field that pass `if pr.<f> > 0`.
Included64(group, f) == SelectSeq(FieldValues(group, f), LAMBDA v : v # Zero64)

\* Avg<f> of a count field: float64(sum) / float64(prCount).
AvgCount64(group, f) == DivInt64(FromInt64(SumInt(FieldValues(group, f))), Len(group))

\* sum<f> / float64(count<f>) for the included values vals of an hours field.
AvgOf64(vals) ==
    IF Len(vals) > 0 THEN DivInt64(SumFloat64(vals, Len(vals)), Len(vals)) ELSE Zero64

\* The median of an hours field taken over all values of the group.
MedianOf64_AllValues(group, f) == calculateMedianFloat64(FieldValues(group, f))

\* Median<f> of an hours field: calculateMedianFloat of the included values (0 when
\* there is none, as the field is set only `if count<f> > 0`).
MedianOf64(group, f) == calculateMedianFloat64(Included64(group, f))

\* calculateAggregatedMetrics in float64 arithmetic, with one count field
\* (CommitCount) and one hours field (TotalPRLifetimeHours); the other fields are
\* computed by the same statements.
calculateAggregatedMetrics64(period, startDate, endDate, group) ==
    [Period                     |-> period,
     StartDate                  |-> startDate,
     EndDate                    |-> endDate,
     PRCount                    |-> Len(group),
     AvgCommitCount             |->
         IF Len(group) = 0 THEN Zero64 ELSE AvgCount64(group, "CommitCount"),
     MedianCommitCount          |->
         IF Len(group) = 0 THEN Zero64
         ELSE calculateMedianInt64(FieldValues(group, "CommitCount")),
     AvgTotalPRLifetimeHours    |-> AvgOf64(Included64(group, "TotalPRLifetimeHours")),
     MedianTotalPRLifetimeHours |-> MedianOf64(group, "TotalPRLifetimeHours")]

\* The second loop of an aggregation without the sort.
Summarize64_Unsorted(g, order) ==
    [i \in 1..Len(order) |->
        calculateAggregatedMetrics64(order[i], g.start[order[i]], g.end[order[i]],
                                     g.prs[order[i]])]

\* The second loop and the sort of an aggregation: one bucket per key, appended in
\* the order the map is ranged over, then sorted by Period.
Summarize64(g, order) ==
    SortByPeriod([i \in 1..Len(order) |->
        calculateAggregatedMetrics64(order[i], g.start[order[i]], g.end[order[i]],
                                     g.prs[order[i]])])

\* CalculateWeeklyAggregatedMetrics in float64 arithmetic.
CalculateWeeklyAggregatedMetrics64(metrics, order) ==
    Summarize64(WeeklyGroups(metrics, Len(metrics)), order)

\* CalculateMonthlyAggregatedMetrics in float64 arithmetic.
CalculateMonthlyAggregatedMetrics64(metrics, order) ==
    Summarize64(MonthlyGroups(metrics, Len(metrics)), order)

(***************************************************************************)
(* Two runs of main() on the same records in two orders                    *)
(***************************************************************************)
\* A record of CalculateAllPRMetrics' result: merged at mergedAt after lifetime
\* minutes, with the given number of commits.
MergedPR(mergedAt, commits, lifetime) ==
    [MergedAt             |-> mergedAt,
     CommitCount          |-> commits,
     TotalPRLifetimeHours |-> Hours64(lifetime)]

\* Three pull requests merged in the week 2025-W01 after 6, 12 and 18 minutes, and
\* one merged in 2025-W04, of the same month, at the instant it was created.
OrderPRs ==
    {MergedPR(Date(2025, 1, 1, 28800), 5, 6),
     MergedPR(Date(2025, 1, 2, 36000), 3, 12),
     MergedPR(Date(2025, 1, 3, 0), 1, 18),
     MergedPR(Date(2025, 1, 20, 43200), 2, 0)}

\* The arrangements of the elements of s in every order.
Arrangements(s) == {[i \in DOMAIN s |-> s[f[i]]] : f \in Permutations(DOMAIN s)}

InitOrder ==
    /\ pc = "weekly64"
    /\ family = "order"
    /\ prMetrics \in SeqsUpTo(OrderPRs, MaxPRs)
    /\ permMetrics \in Arrangements(prMetrics)
    /\ prs = <<>>
    /\ weeklyPRs = NoResult
    /\ weeklyMetrics = <<>>
    /\ weeklyErr = NoResult
    /\ monthlyPRs = NoResult
    /\ monthlyMetrics = <<>>
    /\ monthlyErr = NoResult
    /\ permWeekly = <<>>
    /\ permMonthly = <<>>
    /\ CalcIdle
    /\ MedianIdle
    /\ WeekIdle

\* The first run: weeklyMetrics, err := CalculateWeeklyAggregatedMetrics(prMetrics)
RunWeekly64 ==
    /\ pc = "weekly64"
    /\ \E order \in RangeOrders(WeekKeys(prMetrics)) :
           weeklyMetrics' = CalculateWeeklyAggregatedMetrics64(prMetrics, order)
    /\ pc' = "monthly64"
    /\ UNCHANGED <<prs, prMetrics, weeklyPRs, weeklyErr, monthlyPRs, monthlyMetrics,
                   monthlyErr, family>>
    /\ UNCHANGED <<medianVars, weekVars, calcVars, orderVars>>

\* The first run: monthlyMetrics, err := CalculateMonthlyAggregatedMetrics(prMetrics)
RunMonthly64 ==
    /\ pc = "monthly64"
    /\ \E order \in RangeOrders(MonthKeys(prMetrics)) :
           monthlyMetrics' = CalculateMonthlyAggregatedMetrics64(prMetrics, order)
    /\ pc' = "weekly64-reordered"
    /\ UNCHANGED <<prs, prMetrics, weeklyPRs, weeklyMetrics, weeklyErr, monthlyPRs,
                   monthlyErr, family>>
    /\ UNCHANGED <<medianVars, weekVars, calcVars, orderVars>>

\* The second run: the weekly aggregation of the reordered records.
RunWeeklyReordered ==
    /\ pc = "weekly64-reordered"
    /\ \E order \in RangeOrders(WeekKeys(permMetrics)) :
           permWeekly' = CalculateWeeklyAggregatedMetrics64(permMetrics, order)
    /\ pc' = "monthly64-reordered"
    /\ UNCHANGED <<prs, prMetrics, weeklyPRs, weeklyMetrics, weeklyErr, monthlyPRs,
                   monthlyMetrics, monthlyErr, family, permMetrics, permMonthly>>
    /\ UNCHANGED <<medianVars, weekVars, calcVars>>

\* The second run: the monthly aggregation of the reordered records.
RunMonthlyReordered ==
    /\ pc = "monthly64-reordered"
    /\ \E order \in RangeOrders(MonthKeys(permMetrics)) :
           permMonthly' = CalculateMonthlyAggregatedMetrics64(permMetrics, order)
    /\ pc' = "done"
    /\ UNCHANGED <<prs, prMetrics, weeklyPRs, weeklyMetrics, weeklyErr, monthlyPRs,
                   monthlyMetrics, monthlyErr, family, permMetrics, permWeekly>>
    /\ UNCHANGED <<medianVars, weekVars, calcVars>>

NextOrder == RunWeekly64 \/ RunMonthly64 \/ RunWeeklyReordered \/ RunMonthlyReordered

SpecOrder == InitOrder /\ [][NextOrder]_vars

\* Both runs of main() on the same records, in two orders, have aggregated.
BothRunsDone == family = "order" /\ pc = "done"

(***************************************************************************)
(* Reference notions the properties are stated with                        *)
(***************************************************************************)
\* The positions of the merged records of a collection.
MergedIndices(metrics) == {i \in DOMAIN metrics : metrics[i].MergedAt # ZeroTime}

MergedCount(metrics) == Cardinality(MergedIndices(metrics))

IsMerged(pr) == pr.MergedAt # ZeroTime

IsUnmerged(pr) == pr.MergedAt = ZeroTime

RECURSIVE SumPRCount(_)
SumPRCount(buckets) ==
    IF buckets = <<>> THEN 0 ELSE Head(buckets).PRCount + SumPRCount(Tail(buckets))

Buckets(result) == {result[i] : i \in DOMAIN result}

\* 00:00:00 of the day after t's day.
NextMidnight(t) == [day |-> t.day + 1, sec |-> 0]

\* The median of a non-empty sequence of rationals by rank, without sorting: the
\* mean of the lower and the upper middle value (which coincide for odd length).
RankMedian(s) ==
    LET n        == Len(s)
        below(x) == Cardinality({i \in 1..n : s[i].num * x.den < x.num * s[i].den})
        above(x) == Cardinality({i \in 1..n : s[i].num * x.den > x.num * s[i].den})
        lower    == CHOOSE x \in Range(s) : below(x) <= (n - 1) \div 2 /\ above(x) <= n \div 2
        upper    == CHOOSE x \in Range(s) : below(x) <= n \div 2 /\ above(x) <= (n - 1) \div 2
    IN  Rat(lower.num * upper.den + upper.num * lower.den, 2 * lower.den * upper.den)

\* n times the rational a.
Times(a, n) == Rat(a.num * n, a.den)

\* The positions in a group whose value of hours field f is positive.
PositiveIndices(group, f) == {i \in DOMAIN group : group[i][f].num > 0}

\* The sum of the values of field f at the positions I of a group, as a rational.
RECURSIVE SumAt(_, _, _)
SumAt(group, f, I) ==
    IF I = {} THEN Rat(0, 1)
    ELSE LET i == CHOOSE k \in I : TRUE
             v == group[i][f]
             r == SumAt(group, f, I \ {i})
         IN  IF f \in CountFieldSet THEN Rat(r.num + v * r.den, r.den)
             ELSE Rat(r.num * v.den + v.num * r.den, r.den * v.den)

\* The values of field f at the positions I of a group, as rationals, in order.
RECURSIVE ValuesAt(_, _, _)
ValuesAt(group, f, I) ==
    IF I = {} THEN <<>>
    ELSE LET i == CHOOSE k \in I : \A j \in I : k >= j
             v == group[i][f]
         IN  Append(ValuesAt(group, f, I \ {i}),
                    IF f \in CountFieldSet THEN Rat(v, 1) ELSE v)

\* Both aggregations have returned.
Done == pc = "done"

\* Every bucket of both results with the pull requests grouped into it satisfies P.
AllBuckets(P(_, _)) ==
    /\ \A b \in Buckets(weeklyMetrics) : P(b, weeklyPRs[b.Period])
    /\ \A b \in Buckets(monthlyMetrics) : P(b, monthlyPRs[b.Period])

\* Some bucket of one of the results with its pull requests satisfies P.
SomeBucket(P(_, _)) ==
    \/ \E b \in Buckets(weeklyMetrics) : P(b, weeklyPRs[b.Period])
    \/ \E b \in Buckets(monthlyMetrics) : P(b, monthlyPRs[b.Period])

(***************************************************************************)
(* Properties                                                              *)
(***************************************************************************)
\* C1: the PRCounts of the weekly buckets and those of the monthly buckets both
\* add up to the number of records of the input whose MergedAt is not zero.
C1_PRCountSums ==
    Done => /\ SumPRCount(weeklyMetrics) = MergedCount(prMetrics)
            /\ SumPRCount(monthlyMetrics) = MergedCount(prMetrics)
            /\ SumPRCount(weeklyMetrics) = SumPRCount(monthlyMetrics)

\* C1 witness: merged and unmerged records aggregated into several weekly buckets
\* and a different number of monthly buckets, one of them with several records.
C1_Witness ==
    /\ Done
    /\ MergedCount(prMetrics) >= 2
    /\ MergedCount(prMetrics) < Len(prMetrics)
    /\ Len(weeklyMetrics) >= 2
    /\ Len(monthlyMetrics) < Len(weeklyMetrics)

\* StartDate <= t <= EndDate for every pull request of the bucket.
WithinStartEnd(b, group) ==
    \A i \in DOMAIN group :
        /\ NotAfter(b.StartDate, group[i].MergedAt)
        /\ NotAfter(group[i].MergedAt, b.EndDate)

\* C2 as stated: every pull request grouped into a bucket was merged at a time t
\* with StartDate <= t <= EndDate, whatever the time of day.
C2_Original == Done => AllBuckets(WithinStartEnd)

\* StartDate <= t and t before the midnight that ends EndDate's day.
WithinStartEndDay(b, group) ==
    \A i \in DOMAIN group :
        /\ NotAfter(b.StartDate, group[i].MergedAt)
        /\ Before(group[i].MergedAt, NextMidnight(b.EndDate))

\* C2 amended: every pull request grouped into a bucket was merged at a time t
\* with StartDate <= t < EndDate + 24 hours: EndDate is 00:00:00 of the last day
\* of the period, and a merge later on that day lies after it.
C2_WithinPeriodDays ==
    Done => /\ AllBuckets(WithinStartEndDay)
            /\ \A b \in Buckets(weeklyMetrics) \cup Buckets(monthlyMetrics) :
                  b.StartDate.sec = 0 /\ b.EndDate.sec = 0

MergedAfterEndDate(b, group) == \E i \in DOMAIN group : Before(b.EndDate, group[i].MergedAt)

MergedAtEndDate(b, group) == \E i \in DOMAIN group : b.EndDate = group[i].MergedAt

\* C2 witness: a weekly and a monthly bucket each hold a pull request merged on
\* the last day after 00:00:00, and a bucket holds one merged at EndDate exactly.
C2_Witness ==
    /\ Done
    /\ \E b \in Buckets(weeklyMetrics) : MergedAfterEndDate(b, weeklyPRs[b.Period])
    /\ \E b \in Buckets(monthlyMetrics) : MergedAfterEndDate(b, monthlyPRs[b.Period])
    /\ SomeBucket(MergedAtEndDate)

\* C3: the weekly and the monthly result are those of the input with every
\* unmerged record removed (so inputs that differ only in unmerged records give
\* the same results), and the unmerged records of the pull requests whose
\* computation succeeded are all in the per-PR output, in their order.
C3_UnmergedNoInfluence ==
    /\ Done =>
          LET merged == SelectSeq(prMetrics, IsMerged)
          IN  /\ \A order \in RangeOrders(WeekKeys(merged)) :
                    CalculateWeeklyAggregatedMetrics(merged, order).metrics = weeklyMetrics
              /\ \A order \in RangeOrders(MonthKeys(merged)) :
                    CalculateMonthlyAggregatedMetrics(merged, order).metrics = monthlyMetrics
    /\ pc # "fetch" =>
          LET succeeded == SelectSeq(prs, LAMBDA pr : ~pr.fatal)
              computed  == [i \in DOMAIN succeeded |-> succeeded[i].metrics]
          IN  SelectSeq(prMetrics, IsUnmerged) = SelectSeq(computed, IsUnmerged)

\* C3 witness: unmerged records with different values stand between merged ones
\* in the input of the aggregation, which returned buckets.
C3_Witness ==
    /\ Done
    /\ Cardinality({prMetrics[i] : i \in DOMAIN prMetrics \ MergedIndices(prMetrics)}) >= 2
    /\ MergedCount(prMetrics) >= 1
    /\ weeklyMetrics # <<>>
    /\ monthlyMetrics # <<>>

\* The statistics of hours field f of bucket b are those of the positive values
\* of its group: average times their number is their sum, the median is their
\* median; PRCount is the size of the group.
HoursStatistics(b, group) ==
    /\ b.PRCount = Len(group)
    /\ \A f \in HoursFieldSet :
          LET I == PositiveIndices(group, f)
          IN  I # {} => /\ Times(b.Avg[f], Cardinality(I)) = SumAt(group, f, I)
                        /\ b.Median[f] = RankMedian(ValuesAt(group, f, I))

\* C4: for each of the ten duration/gap fields of a bucket, exactly the values
\* greater than zero enter the statistics: the average is their sum divided by
\* their number, the median is their median, and PRCount counts every pull
\* request of the bucket.
C4_HoursStatistics == Done => AllBuckets(HoursStatistics)

\* A bucket of three pull requests with lifetimes 0, 20 and 30 (in some order)
\* reporting average 25 and median 25.
LifetimeExample(b, group) ==
    /\ b.PRCount = 3
    /\ {group[i]["TotalPRLifetimeHours"] : i \in DOMAIN group} = {Rat(0, 1), Rat(20, 1), Rat(30, 1)}
    /\ b.Avg["TotalPRLifetimeHours"] = Rat(25, 1)
    /\ b.Median["TotalPRLifetimeHours"] = Rat(25, 1)

\* A bucket with a field that has a negative, a zero and a positive value.
MixedSigns(b, group) ==
    \E f \in HoursFieldSet :
        /\ \E i \in DOMAIN group : group[i][f].num < 0
        /\ \E i \in DOMAIN group : group[i][f].num = 0
        /\ \E i \in DOMAIN group : group[i][f].num > 0

\* C4 witness: the lifetimes [0,20,30] with average 25, median 25 and PRCount 3,
\* and a bucket in which a field has negative, zero and positive values.
C4_Witness ==
    /\ Done
    /\ \E b \in Buckets(weeklyMetrics) : LifetimeExample(b, weeklyPRs[b.Period])
    /\ SomeBucket(MixedSigns)

\* The statistics of every count field of bucket b are those of all values of
\* its group: average times PRCount is their sum, the median is their median.
CountStatistics(b, group) ==
    /\ b.PRCount = Len(group)
    /\ \A f \in CountFieldSet :
          /\ Times(b.Avg[f], b.PRCount) = SumAt(group, f, DOMAIN group)
          /\ b.Median[f] = RankMedian(ValuesAt(group, f, DOMAIN group))

\* C5: for each of the eight count fields of a bucket the average is the sum
\* over all pull requests of the bucket divided by PRCount and the median is the
\* median of all their values, zeros included.
C5_CountStatistics == Done => AllBuckets(CountStatistics)

\* A bucket of three pull requests with commit counts 5, 3 and 1 reporting
\* average 3 and median 3.
CommitCountExample(b, group) ==
    /\ b.PRCount = 3
    /\ {group[i]["CommitCount"] : i \in DOMAIN group} = {5, 3, 1}
    /\ b.Avg["CommitCount"] = Rat(3, 1)
    /\ b.Median["CommitCount"] = Rat(3, 1)

\* A bucket with a count field that is zero for one pull request and not for
\* the others, the zero lowering the average below every other value.
ZeroCounted(b, group) ==
    \E f \in CountFieldSet :
        /\ \E i \in DOMAIN group : group[i][f] = 0
        /\ \E i \in DOMAIN group : group[i][f] > 0
        /\ \A i \in DOMAIN group : group[i][f] > 0 => b.Avg[f].num <= group[i][f] * b.Avg[f].den

\* C5 witness: commit counts [5,3,1] in one ISO week with PRCount 3, average 3
\* and median 3, and a bucket whose average counts a zero value.
C5_Witness ==
    /\ Done
    /\ \E b \in Buckets(weeklyMetrics) : CommitCountExample(b, weeklyPRs[b.Period])
    /\ SomeBucket(ZeroCounted)

\* lo <= x <= hi for every positive value lo, hi of field f in the group.
Between(x, group, f) ==
    /\ \E i \in PositiveIndices(group, f) : RatLeq(group[i][f], x)
    /\ \E i \in PositiveIndices(group, f) : RatLeq(x, group[i][f])

\* Average and median of every hours field of bucket b are both 0 when no pull
\* request of the group has a positive value, and both within the range of the
\* positive values otherwise.
ConsistentPair(b, group) ==
    \A f \in HoursFieldSet :
        /\ PositiveIndices(group, f) = {} => b.Avg[f] = Rat(0, 1) /\ b.Median[f] = Rat(0, 1)
        /\ PositiveIndices(group, f) # {} =>
              Between(b.Avg[f], group, f) /\ Between(b.Median[f], group, f)
        /\ b.Avg[f] = Rat(0, 1) <=> b.Median[f] = Rat(0, 1)

\* C6 in exact arithmetic: in every bucket and for every duration/gap field,
\* average and median come from the same set of pull requests: both are 0 when no
\* pull request of the bucket has a positive value, else both lie between the
\* smallest and the largest positive value.
C6_ConsistentPair == Done => AllBuckets(ConsistentPair)

\* A bucket of several pull requests with a field none of them has a positive
\* value of, and a field of which some but not all have one.
PartlyObserved(b, group) ==
    /\ Len(group) >= 2
    /\ \E f \in HoursFieldSet : PositiveIndices(group, f) = {}
    /\ \E f \in HoursFieldSet :
          /\ PositiveIndices(group, f) # {}
          /\ PositiveIndices(group, f) # DOMAIN group
          /\ b.Avg[f] # Rat(0, 1)

\* C6 witness: a bucket with a field no pull request has a positive value of and
\* a field only some have, whose average is not 0.
C6_Witness == Done /\ SomeBucket(PartlyObserved)

\* x <= y for float64 values.
Leq64(x, y) == ~Less64(y, x)

\* x > 0 moved up by n units in the last place.
RECURSIVE StepUp(_, _)
StepUp(x, n) == IF n = 0 THEN x ELSE RoundUp(StepUp(x, n - 1).m, StepUp(x, n - 1).e)

\* The positive values of the hours field among the records of group.
Positive64(group) ==
    SelectSeq(FieldValues(group, "TotalPRLifetimeHours"), LAMBDA v : Less64(Zero64, v))

\* x lies between the smallest and the largest of vals.
Within64(x, vals) ==
    /\ \E i \in DOMAIN vals : Leq64(vals[i], x)
    /\ \E i \in DOMAIN vals : Leq64(x, vals[i])

\* x is positive and lies between the smallest and the largest of vals up to one
\* unit in the last place for each of them.
NearlyWithin64(x, vals) ==
    /\ x # Zero64
    /\ \E i \in DOMAIN vals : Leq64(vals[i], StepUp(x, Len(vals)))
    /\ \E i \in DOMAIN vals : Leq64(x, StepUp(vals[i], Len(vals)))

\* Every bucket of the two runs in float64 arithmetic, with the pull requests that
\* fell into it, satisfies P.
AllBuckets64(P(_, _)) ==
    /\ \A b \in Buckets(weeklyMetrics) :
           P(b, WeeklyGroups(prMetrics, Len(prMetrics)).prs[b.Period])
    /\ \A b \in Buckets(monthlyMetrics) :
           P(b, MonthlyGroups(prMetrics, Len(prMetrics)).prs[b.Period])
    /\ \A b \in Buckets(permWeekly) :
           P(b, WeeklyGroups(permMetrics, Len(permMetrics)).prs[b.Period])
    /\ \A b \in Buckets(permMonthly) :
           P(b, MonthlyGroups(permMetrics, Len(permMetrics)).prs[b.Period])

\* Average and median of the hours field of bucket b are both 0 when no pull
\* request of the group has a positive value, and both within the range of the
\* positive values otherwise.
ExactPair64(b, group) ==
    IF Positive64(group) = <<>>
    THEN b.AvgTotalPRLifetimeHours = Zero64 /\ b.MedianTotalPRLifetimeHours = Zero64
    ELSE /\ Within64(b.AvgTotalPRLifetimeHours, Positive64(group))
         /\ Within64(b.MedianTotalPRLifetimeHours, Positive64(group))

\* Likewise, the average within the range up to the rounding of the float64 sum.
RoundedPair64(b, group) ==
    IF Positive64(group) = <<>>
    THEN b.AvgTotalPRLifetimeHours = Zero64 /\ b.MedianTotalPRLifetimeHours = Zero64
    ELSE /\ NearlyWithin64(b.AvgTotalPRLifetimeHours, Positive64(group))
         /\ Within64(b.MedianTotalPRLifetimeHours, Positive64(group))

\* C6 as stated, on the float64 values the program computes: in every bucket the
\* average and the median of a duration field are both 0, or both lie between the
\* smallest and the largest included value.
C6_Original == BothRunsDone => AllBuckets64(ExactPair64)

\* C6 in float64 arithmetic: in every bucket the average and the median of a
\* duration field come from the same pull requests: both are 0 when no pull request
\* of the bucket has a positive value; otherwise both are positive, the median lies
\* between the smallest and the largest included value, and the average does so up
\* to the rounding of the float64 sum (one unit in the last place per value).
C6_RoundedPair == BothRunsDone => AllBuckets64(RoundedPair64)

\* C6 witness in float64 arithmetic: a bucket of three pull requests whose average
\* lifetime exceeds the largest of their lifetimes while the median does not.
C6_RoundedWitness ==
    /\ BothRunsDone
    /\ \E b \in Buckets(monthlyMetrics) :
           /\ b.PRCount = 3
           /\ \A i \in DOMAIN Positive64(prMetrics) :
                  Less64(Positive64(prMetrics)[i], b.AvgTotalPRLifetimeHours)
           /\ Within64(b.MedianTotalPRLifetimeHours, Positive64(prMetrics))

\* The buckets of a result are in strictly ascending order of Period and of
\* StartDate.
SortedChronologically(result) ==
    \A i, j \in DOMAIN result :
        i < j => /\ StrLess(result[i].Period, result[j].Period)
                 /\ Before(result[i].StartDate, result[j].StartDate)

\* C7: both results are sorted ascending by Period, and that order is the
\* chronological one: the bucket with the smaller Period has the earlier
\* StartDate.
C7_SortedByPeriod ==
    /\ pc \in {"monthly", "done"} => SortedChronologically(weeklyMetrics)
    /\ Done => SortedChronologically(monthlyMetrics)

\* Positions i < j of the input whose records were merged in the opposite order.
MergedOutOfOrder ==
    \E i, j \in MergedIndices(prMetrics) :
        i < j /\ Before(prMetrics[j].MergedAt, prMetrics[i].MergedAt)

\* C7 witness: three or more weekly buckets from two ISO years and several
\* monthly buckets, from an input that is not in the order of the merges.
C7_Witness ==
    /\ Done
    /\ Len(weeklyMetrics) >= 3
    /\ Len(monthlyMetrics) >= 2
    /\ MergedOutOfOrder
    /\ weeklyMetrics[1].Period[4] # weeklyMetrics[Len(weeklyMetrics)].Period[4]

\* C8: both aggregations return a nil error for every input, and an empty result
\* for an input without a merged pull request (the empty input among them).
C8_NeverFails ==
    /\ pc \in {"monthly", "done"} =>
          /\ weeklyErr = "nil"
          /\ MergedCount(prMetrics) = 0 => weeklyMetrics = <<>>
    /\ Done =>
          /\ monthlyErr = "nil"
          /\ MergedCount(prMetrics) = 0 => monthlyMetrics = <<>>

\* C8 witness: both aggregations have returned an empty result for an input that
\* holds unmerged pull requests only.
C8_Witness ==
    /\ Done
    /\ Len(prMetrics) >= 2
    /\ MergedCount(prMetrics) = 0
    /\ weeklyMetrics = <<>>
    /\ monthlyMetrics = <<>>

\* The arrangements of s in ascending order.
Ascending(s) ==
    {p \in Arrangements(s) : \A i \in 1..(Len(p) - 1) : RatLeq(p[i], p[i + 1])}

\* x is the middle element of the ascending p (odd length) or the mean of its two
\* central elements (even length).
IsMiddle(x, p) ==
    LET n == Len(p)
    IN  IF n % 2 = 1 THEN x = p[(n + 1) \div 2]
        ELSE Times(x, 2) = Rat(p[n \div 2].num * p[(n \div 2) + 1].den
                               + p[(n \div 2) + 1].num * p[n \div 2].den,
                               p[n \div 2].den * p[(n \div 2) + 1].den)

\* C9: a median function returns 0 for the empty slice, else the middle element
\* of the ascending-sorted values (odd length) or the mean of the two central
\* ones (even length), whatever the order of the input; calculateMedianInt
\* returns what calculateMedianFloat returns on the same numbers.
C9_Median ==
    medianCall \in {"int", "float"} =>
        /\ original = <<>> => medianResult = Rat(0, 1)
        /\ original # <<>> => \A p \in Ascending(original) : IsMiddle(medianResult, p)
        /\ \A p \in Arrangements(original) : calculateMedianFloat(p) = medianResult
        /\ \A p \in Arrangements(intValues) : calculateMedianInt(p) = medianResult
        /\ Len(original) = 1 => medianResult = original[1]
        /\ original = <<Rat(1, 1), Rat(3, 1)>> => medianResult = Rat(2, 1)
        /\ original = <<Rat(1, 1), Rat(2, 1), Rat(3, 1)>> => medianResult = Rat(2, 1)
        /\ original = <<Rat(1, 1), Rat(2, 1), Rat(3, 1), Rat(4, 1)>> => medianResult = Rat(5, 2)

\* C9 witness: calculateMedianInt has returned 2.5 for the unsorted [4,1,3,2].
C9_Witness ==
    /\ medianCall = "int"
    /\ intValues = <<4, 1, 3, 2>>
    /\ medianResult = Rat(5, 2)

\* C10: getStartOfISOWeek returns a Monday at 00:00:00 that is at most six days
\* before the day of its argument, exactly six for a Sunday, and maps two
\* instants to the same result exactly if they are of the same ISO week.
C10_StartOfISOWeek ==
    weekCall = "called" =>
        /\ weekStart.sec = 0
        /\ Weekday(weekStart) = 1
        /\ weekStart.day <= date.day /\ date.day <= weekStart.day + 6
        /\ Weekday(date) = 0 => weekStart.day = date.day - 6
        /\ \A d \in WeekDates : ISOWeek(d) = ISOWeek(date) <=> getStartOfISOWeek(d) = weekStart

\* C10 witness: the call for Sunday 2025-01-05 23:59:59 has returned Monday
\* 2024-12-30 00:00:00.
C10_Witness ==
    /\ weekCall = "called"
    /\ date = Date(2025, 1, 5, 86399)
    /\ Weekday(date) = 0
    /\ weekStart = Date(2024, 12, 30, 0)

(***************************************************************************)
(* Properties of the per-PR metrics calculator                             *)
(***************************************************************************)
\* CalculatePRMetrics has returned for the pull request prs[idx].
Returned == pc = "calc" /\ pcPR = "returned"

\* CalculatePRMetrics has returned the record curMetrics for prs[idx].
Produced == Returned /\ ~ret.nil

\* The commit list the source returned for the pull request of the running call.
SourceCommits == prs[idx].commits.value

\* The positions of the commits whose timestamp is not before createdAt.
NotBeforeCreation(list, createdAt) ==
    {k \in DOMAIN list : list[k].dated /\ NotAfter(createdAt, list[k].Date)}

DurationFields ==
    {"FirstCommitToCreateHours", "CreateToLastCommitHours", "FirstCommitToMergeHours",
     "LastCommitToMergeHours", "TotalPRLifetimeHours", "CreatedToFirstCommentHours",
     "TimeToApprovalHours"}

\* The submission times of the approving reviews the source returned for pr.
ApprovalTimes(pr) ==
    IF pr.reviews.err THEN {}
    ELSE {pr.reviews.value[k].SubmittedAt :
             k \in {j \in DOMAIN pr.reviews.value : pr.reviews.value[j].State = "APPROVED"}}

\* The earliest approval of pr, or the zero Time.
FirstApproval(pr) ==
    IF ApprovalTimes(pr) = {} THEN ZeroTime
    ELSE CHOOSE t \in ApprovalTimes(pr) : \A u \in ApprovalTimes(pr) : NotAfter(t, u)

\* The instant the duration field f of the record m of pr starts at.
StartOf(f, m) ==
    IF f \in {"FirstCommitToCreateHours", "FirstCommitToMergeHours"} THEN m.FirstCommitAt
    ELSE IF f = "LastCommitToMergeHours" THEN m.LastCommitAt
    ELSE m.CreatedAt

\* The instant the duration field f of the record m of pr ends at.
EndOf(f, m, pr) ==
    IF f = "FirstCommitToCreateHours" THEN m.CreatedAt
    ELSE IF f = "CreateToLastCommitHours" THEN m.LastCommitAt
    ELSE IF f = "CreatedToFirstCommentHours" THEN m.FirstCommentAt
    ELSE IF f = "TimeToApprovalHours" THEN FirstApproval(pr)
    ELSE m.MergedAt

\* The author dates of the commits of a list are in chronological order.
Chronological(list) ==
    \A j, k \in DOMAIN list :
        (j < k /\ list[j].dated /\ list[k].dated) => NotAfter(list[j].Date, list[k].Date)

\* Well-formed input in the stated sense: a merged pull request is not merged
\* before its creation, and its commit list is in chronological order.
WellFormed(pr) ==
    /\ IsZero(pr.MergedAt) \/ NotAfter(pr.CreatedAt, pr.MergedAt)
    /\ Chronological(pr.commits.value)

TimeMetricsFields == DurationFields \ {"TimeToApprovalHours"}

\* The three of them that depend on the merge.
MergeFields == {"FirstCommitToMergeHours", "LastCommitToMergeHours", "TotalPRLifetimeHours"}

CommitFields ==
    {"FirstCommitToCreateHours", "CreateToLastCommitHours", "FirstCommitToMergeHours",
     "LastCommitToMergeHours"}

\* C14: the record produced for a pull request with an empty commit list has
\* CommitCount = 0, CommitCountDuringPR = 0, zero FirstCommitAt and LastCommitAt
\* and the four commit-dependent duration fields 0, merged or not.
C14_NoCommits ==
    (Produced /\ SourceCommits = <<>>) =>
        /\ curMetrics.CommitCount = 0
        /\ curMetrics.CommitCountDuringPR = 0
        /\ IsZero(curMetrics.FirstCommitAt)
        /\ IsZero(curMetrics.LastCommitAt)
        /\ \A f \in CommitFields : curMetrics[f] = RatZero

\* C14 witness: a merged pull request without commits, with comments, whose
\* lifetime and time to the first comment are computed.
C14_Witness ==
    /\ Produced
    /\ SourceCommits = <<>>
    /\ curMetrics.CommitCount = 0
    /\ curMetrics.CommentCount = 2
    /\ curMetrics.TotalPRLifetimeHours = Rat(22, 1)
    /\ curMetrics.CreatedToFirstCommentHours = Rat(1, 1)
    /\ \A f \in CommitFields : curMetrics[f] = RatZero

\* The three gap fields.
GapFields == {"MaxNoActivityPeriodHours", "MaxNoCommentPeriodHours", "MaxNoCommitPeriodHours"}

\* CalculatePRMetrics has produced a record for a pull request with exactly one
\* commit and exactly one comment.
OneCommitOneComment == Produced /\ Len(SourceCommits) = 1 /\ Len(curComments) = 1

\* C15 as stated: with exactly one commit and one comment all three gap fields
\* are 0.
C15_Original ==
    OneCommitOneComment => \A f \in GapFields : curMetrics[f] = RatZero

\* The hours between two instants, whichever is the earlier.
HoursApart(t, u) == IF Before(t, u) THEN SubHours(u, t) ELSE SubHours(t, u)

\* C15: with exactly one commit and one comment MaxNoCommentPeriodHours and
\* MaxNoCommitPeriodHours are 0 and MaxNoActivityPeriodHours is the time between
\* the commit and the comment, whichever is first (0 if they coincide or the
\* commit has no author date).
C15_OneCommitOneComment ==
    OneCommitOneComment =>
        /\ curMetrics.MaxNoCommentPeriodHours = RatZero
        /\ curMetrics.MaxNoCommitPeriodHours = RatZero
        /\ curMetrics.MaxNoActivityPeriodHours =
               IF SourceCommits[1].dated
               THEN HoursApart(SourceCommits[1].Date, curComments[1])
               ELSE RatZero

\* C15 witness: a commit at 10:00 and a comment at 09:30 give
\* MaxNoActivityPeriodHours = 0.5.
C15_Witness ==
    /\ OneCommitOneComment
    /\ SourceCommits = <<Commit(TRUE, Clock(10, 0))>>
    /\ curComments = <<Clock(9, 30)>>
    /\ curMetrics.MaxNoActivityPeriodHours = Rat(1, 2)
    /\ curMetrics.MaxNoCommentPeriodHours = RatZero
    /\ curMetrics.MaxNoCommitPeriodHours = RatZero

\* C16: when the source fails to return the details or the commit list,
\* CalculatePRMetrics returns that error and a nil record.
C16_FatalErrors ==
    Returned =>
        /\ prs[idx].details.err => (ret.nil /\ ret.err = "details")
        /\ (~prs[idx].details.err /\ prs[idx].commits.err) =>
               (ret.nil /\ ret.err = "commits")

\* C16 witness: the details were returned and stored in metrics, the commit
\* request failed, and CalculatePRMetrics has returned nil with that error.
C16_Witness ==
    /\ Returned
    /\ ~prs[idx].details.err
    /\ prs[idx].commits.err
    /\ curMetrics.Additions = 12
    /\ ret = Return(TRUE, "commits")

\* The fields that come from the comments, and those that come from the reviews.
CommentDerived ==
    {"CommentCount", "FirstCommentAt", "CreatedToFirstCommentHours"} \cup GapFields

ReviewDerived == {"ReviewCount", "ApprovalCount", "TimeToApprovalHours"}

\* The successful answers the source can give to the comments and to the reviews
\* request.
CommentAnswers == {Ok(ms) : ms \in SeqsUpTo(CommentInputs, MaxEvents)}

ReviewAnswers == {Ok(rs) : rs \in SeqsUpTo(ReviewInputs, MaxEvents)}

\* The records m and n agree on every field outside F.
AgreeOutside(m, n, F) == \A f \in MetricsFieldSet \ F : m[f] = n[f]

\* C17: when details and commits are returned, CalculatePRMetrics returns a record
\* and a nil error whether or not the comments or the reviews request fails; a
\* failed comments request leaves the comment-derived fields (count, first
\* comment, time to first comment, three gaps) zero, a failed reviews request the
\* review-derived fields; every other field is what it is when the failed request
\* is answered, whatever the answer.
C17_DegradedErrors ==
    (Returned /\ ~prs[idx].details.err /\ ~prs[idx].commits.err) =>
        /\ ret = Return(FALSE, "nil")
        /\ prs[idx].comments.err =>
              /\ curMetrics.CommentCount = 0
              /\ IsZero(curMetrics.FirstCommentAt)
              /\ curMetrics.CreatedToFirstCommentHours = RatZero
              /\ \A f \in GapFields : curMetrics[f] = RatZero
              /\ \A a \in CommentAnswers :
                    AgreeOutside(curMetrics,
                                 CalculatePRMetrics([prs[idx] EXCEPT !.comments = a]).metrics,
                                 CommentDerived)
        /\ prs[idx].reviews.err =>
              /\ curMetrics.ReviewCount = 0
              /\ curMetrics.ApprovalCount = 0
              /\ curMetrics.TimeToApprovalHours = RatZero
              /\ \A a \in ReviewAnswers :
                    AgreeOutside(curMetrics,
                                 CalculatePRMetrics([prs[idx] EXCEPT !.reviews = a]).metrics,
                                 ReviewDerived)

\* C17 witness: both the comments and the reviews request failed and the record
\* of a merged pull request with two commits is returned.
C17_Witness ==
    /\ Returned
    /\ prs[idx].comments.err
    /\ prs[idx].reviews.err
    /\ ret = Return(FALSE, "nil")
    /\ curMetrics.CommitCount = 2
    /\ curMetrics.Additions = 12
    /\ curMetrics.TotalPRLifetimeHours = Rat(22, 1)
    /\ curMetrics.CommentCount = 0
    /\ curMetrics.ReviewCount = 0

\* The records CalculatePRMetrics returns for batch[1..n], without the pull
\* requests it returns an error for.
RECURSIVE Successes(_, _)
Successes(batch, n) ==
    IF n = 0 THEN <<>>
    ELSE IF CalculatePRMetrics(batch[n]).ret.err = "nil"
    THEN Append(Successes(batch, n - 1), CalculatePRMetrics(batch[n]).metrics)
    ELSE Successes(batch, n - 1)

\* CalculateAllPRMetrics has returned.
BatchReturned == pc \in {"weekly", "monthly", "done"} /\ calcErr # "none"

\* C18: CalculateAllPRMetrics takes every pull request of the list and returns a
\* nil error and, in the order of the list, the records of exactly the pull
\* requests whose computation succeeded; between two iterations allMetrics
\* holds those of the pull requests taken so far.
C18_BatchNeverAborts ==
    /\ (pc = "calc" /\ pcPR = "loop") => allMetrics = Successes(prs, idx)
    /\ BatchReturned =>
          /\ idx = Len(prs)
          /\ calcErr = "nil"
          /\ prMetrics = Successes(prs, Len(prs))
          /\ \A k \in DOMAIN prs :
                \E q \in DOMAIN requests : requests[q] = Request(k, "details", "complete")

\* C18 witness: of three pull requests the first fails on its details, the
\* second is computed, the third fails on its commits, and one record is returned.
C18_Witness ==
    /\ BatchReturned
    /\ Len(prs) = 3
    /\ prs[1].details.err
    /\ prs[2].Number = 2
    /\ prs[3].commits.err
    /\ Len(prMetrics) = 1
    /\ prMetrics[1].Number = 2

\* Every request of the log is completed before the next is issued: the log
\* alternates between the issue of a request and its completion.
OneRequestAtATime ==
    \A q \in DOMAIN requests :
        IF q % 2 = 1
        THEN requests[q].ev = "issue"
        ELSE requests[q] = Request(requests[q - 1].pr, requests[q - 1].call, "complete")

\* No request for a pull request follows one for a pull request later in the batch.
InBatchOrder ==
    \A q, r \in DOMAIN requests : q < r => requests[q].pr <= requests[r].pr

\* C20: every source request made for the pull request at one position of the
\* batch completes before the first request for the next position is issued, and
\* no aggregator is invoked before CalculateAllPRMetrics has returned the complete
\* per-PR collection.
C20_Sequential ==
    /\ OneRequestAtATime
    /\ InBatchOrder
    /\ (inflight # "none") <=> (Len(requests) % 2 = 1)
    /\ pc \in {"weekly", "monthly", "done"} =>
          /\ calcErr = "nil"
          /\ idx = Len(prs)
          /\ pcPR = "loop"
          /\ inflight = "none"
          /\ prMetrics = Successes(prs, Len(prs))

\* C20 witness: after the four requests for the first and the four for the
\* second pull request of a batch, both aggregators have run.
C20_Witness ==
    /\ pc = "done"
    /\ Len(prs) = 2
    /\ Len(requests) = 16
    /\ requests[8] = Request(1, "reviews", "complete")
    /\ requests[9] = Request(2, "details", "issue")
    /\ Len(prMetrics) = 2

\* The fields of a bucket other than the average of an hours field.
OrderFreeFields ==
    {"Period", "StartDate", "EndDate", "PRCount", "AvgCommitCount", "MedianCommitCount",
     "MedianTotalPRLifetimeHours"}

\* The averages of the hours field over the records of group taken in every order.
ReorderedAverages(group) ==
    {AvgOf64(Included64(p, "TotalPRLifetimeHours")) : p \in Arrangements(group)}

\* The aggregations a and b have the same buckets in the same order, equal in every
\* field but the average of the hours field, which in b is the average of the same
\* values summed in some order.
SameBuckets(a, b, groups) ==
    /\ Len(a) = Len(b)
    /\ \A k \in DOMAIN a :
           /\ \A f \in OrderFreeFields : a[k][f] = b[k][f]
           /\ b[k].AvgTotalPRLifetimeHours \in ReorderedAverages(groups[a[k].Period])

\* What a run returned does not depend on the order its maps were ranged over.
MapOrderFree(metrics, weekly, monthly) ==
    /\ \A order \in RangeOrders(WeekKeys(metrics)) :
           CalculateWeeklyAggregatedMetrics64(metrics, order) = weekly
    /\ \A order \in RangeOrders(MonthKeys(metrics)) :
           CalculateMonthlyAggregatedMetrics64(metrics, order) = monthly

\* C19 as stated: two runs on the same records in two orders return the same
\* sequence of buckets with the same value in every field of every bucket.
C19_Original ==
    BothRunsDone => weeklyMetrics = permWeekly /\ monthlyMetrics = permMonthly

\* C19: two runs of the aggregation on the same records in two orders return the
\* same sequence of buckets (ascending by Period, whatever order the maps are ranged
\* over) with the same Period, StartDate, EndDate, PRCount, averages of count fields
\* and medians; the average of an hours field is the float64 sum of the bucket's
\* included values, accumulated in the order of the input, over their number, so in
\* the second run it is the average of the same values summed in another order.
C19_Deterministic ==
    BothRunsDone =>
        /\ SameBuckets(weeklyMetrics, permWeekly,
                       WeeklyGroups(prMetrics, Len(prMetrics)).prs)
        /\ SameBuckets(monthlyMetrics, permMonthly,
                       MonthlyGroups(prMetrics, Len(prMetrics)).prs)
        /\ MapOrderFree(prMetrics, weeklyMetrics, monthlyMetrics)
        /\ MapOrderFree(permMetrics, permWeekly, permMonthly)

\* Three pull requests of one week, reordered, and the two runs disagree on the
\* average of their lifetimes.
C19_Witness ==
    /\ BothRunsDone
    /\ prMetrics # permMetrics
    /\ \E k \in DOMAIN weeklyMetrics :
           /\ weeklyMetrics[k].PRCount = 3
           /\ weeklyMetrics[k].AvgTotalPRLifetimeHours #
                  permWeekly[k].AvgTotalPRLifetimeHours
           /\ weeklyMetrics[k].MedianTotalPRLifetimeHours =
                  permWeekly[k].MedianTotalPRLifetimeHours

\* C21 as stated: after a call of a median function the slice the caller passed
\* holds the same elements in the same order as before the call.
C21_Original ==
    /\ medianCall = "int" => intValues = [i \in 1..Len(original) |-> original[i].num]
    /\ medianCall = "float" => values = original

\* C21, the part that holds: calculateMedianInt leaves its argument as it was, and
\* calculateMedianFloat leaves in its argument the same elements, in ascending
\* order.
C21_SortedInPlace ==
    /\ medianCall = "int" =>
           /\ values = original
           /\ intValues = [i \in 1..Len(original) |-> original[i].num]
    /\ medianCall = "float" => values \in Ascending(original)

\* calculateMedianFloat has returned and the caller's slice is no longer what it
\* was.
C21_Witness == medianCall = "float" /\ values # original /\ Len(values) >= 3

\* CalculatePRMetrics has produced a record for a pull request of which the commit
\* list or the comment list it worked with is empty.
EitherListEmpty == Produced /\ (Len(SourceCommits) = 0 \/ Len(curComments) = 0)

\* C22: when the commit list or the comment list of a pull request is empty, the
\* three gap fields MaxNoActivityPeriodHours, MaxNoCommentPeriodHours and
\* MaxNoCommitPeriodHours of its record are all 0.
C22_GapsNeedBothLists ==
    EitherListEmpty => \A f \in GapFields : curMetrics[f] = RatZero

\* C22 witness: two commits two hours apart and no comment leave the three gap
\* fields 0.
C22_Witness ==
    /\ EitherListEmpty
    /\ \A f \in GapFields : curMetrics[f] = RatZero
    /\ SourceCommits = <<Commit(TRUE, Clock(9, 0)), Commit(TRUE, Clock(11, 0))>>
    /\ curComments = <<>>

\* Two instants of S that no instant of S lies strictly between.
Neighbours(S) ==
    {<<t, u>> \in S \X S :
        Before(t, u) /\ ~\E v \in S : Before(t, v) /\ Before(v, u)}

\* The largest time in hours between two neighbouring instants of S, 0 when S
\* holds fewer than two instants.
LargestGap(S) ==
    IF Neighbours(S) = {} THEN RatZero
    ELSE LET widest == CHOOSE p \in Neighbours(S) :
                           \A q \in Neighbours(S) :
                               RatLeq(SubHours(q[2], q[1]), SubHours(p[2], p[1]))
         IN  SubHours(widest[2], widest[1])

\* The author dates of the commits the source returned, those without a date
\* left out.
CommitInstants == {SourceCommits[i].Date : i \in {j \in DOMAIN SourceCommits : SourceCommits[j].dated}}

\* CalculatePRMetrics has produced a record from a commit list and a comment
\* list that are both non-empty.
BothListsHold == Produced /\ Len(SourceCommits) > 0 /\ Len(curComments) > 0

\* The gap fields of the record, as calculateWaitingPeriods names them.
GapsOf(m) == [f \in GapFields |-> m[f]]

SourceReviews == prs[idx].reviews.value

\* CalculatePRMetrics has produced a record and the source has answered the
\* request for the reviews.
ReviewsFetched == Produced /\ ~prs[idx].reviews.err

\* C24: ReviewCount is the length of the review list, ApprovalCount the number of
\* its reviews whose state is exactly "APPROVED", firstApprovalAt the earliest
\* submission time among those approvals wherever they stand in the list, and
\* TimeToApprovalHours is firstApprovalAt minus CreatedAt when there is an
\* approval and 0 when there is none.
C24_ReviewProcessing ==
    ReviewsFetched =>
        /\ curMetrics.ReviewCount = Len(SourceReviews)
        /\ curMetrics.ApprovalCount =
               Cardinality({k \in DOMAIN SourceReviews : SourceReviews[k].State = "APPROVED"})
        /\ calculateReviewMetrics(prs[idx].reviews).FirstApprovalAt = FirstApproval(prs[idx])
        /\ curMetrics.TimeToApprovalHours =
               IF ApprovalTimes(prs[idx]) # {}
               THEN SubHours(FirstApproval(prs[idx]), curMetrics.CreatedAt)
               ELSE RatZero

\* C24 witness: approvals listed as 11:30, 10:30 on a pull request created at
\* 10:00 give two reviews, two approvals and half an hour to the approval.
C24_Witness ==
    /\ ReviewsFetched
    /\ SourceReviews = <<Review("APPROVED", Clock(11, 30)), Review("APPROVED", Clock(10, 30))>>
    /\ curMetrics.ReviewCount = 2
    /\ curMetrics.ApprovalCount = 2
    /\ curMetrics.TimeToApprovalHours = Rat(1, 2)

\* The field at is the author date of the commit, and the zero Time when the
\* commit carries none.
TakenFrom(commit, at) == IF commit.dated THEN at = commit.Date ELSE IsZero(at)

\* C25: FirstCommitAt is the timestamp of the first and LastCommitAt that of the
\* last commit of the list as the source returned it, and FirstCommentAt is the
\* timestamp of the first comment of the list, whether or not these are the
\* earliest and the latest in time.
C25_ListOrderTrusted ==
    Produced =>
        /\ Len(SourceCommits) > 0 =>
               /\ TakenFrom(SourceCommits[1], curMetrics.FirstCommitAt)
               /\ TakenFrom(SourceCommits[Len(SourceCommits)], curMetrics.LastCommitAt)
        /\ Len(curComments) > 0 => curMetrics.FirstCommentAt = curComments[1]

\* C25 witness: commits returned as 11:00, 09:00 and comments as 11:00, 09:30
\* give FirstCommitAt 11:00, LastCommitAt 09:00 and FirstCommentAt 11:00.
C25_Witness ==
    /\ Produced
    /\ SourceCommits = <<Commit(TRUE, Clock(11, 0)), Commit(TRUE, Clock(9, 0))>>
    /\ curComments = <<Clock(11, 0), Clock(9, 30)>>
    /\ curMetrics.FirstCommitAt = Clock(11, 0)
    /\ curMetrics.LastCommitAt = Clock(9, 0)
    /\ curMetrics.FirstCommentAt = Clock(11, 0)
    /\ Before(curMetrics.LastCommitAt, curMetrics.FirstCommitAt)

\* 00:00:00 of the day n days after t's day.
MidnightAfter(t, n) == [day |-> t.day + n, sec |-> 0]

\* The bounds of a weekly bucket: StartDate is the Monday 00:00:00 whose ISO year
\* and week make the Period, EndDate the Sunday 00:00:00 six days later, and
\* every pull request of the bucket yields these bounds.
WeekOfPeriod(b, group) ==
    /\ b.StartDate.sec = 0
    /\ Weekday(b.StartDate) = 1
    /\ WeekKey(b.StartDate) = b.Period
    /\ b.EndDate = MidnightAfter(b.StartDate, 6)
    /\ Weekday(b.EndDate) = 0
    /\ WeekKey(b.EndDate) = b.Period
    /\ \A i \in DOMAIN group :
           WeekBounds(group[i].MergedAt) = Bounds(b.StartDate, b.EndDate)

\* The bounds of a monthly bucket: StartDate is 00:00:00 of day 1 of the month
\* that makes the Period, EndDate 00:00:00 of the day of that month whose next
\* day is in another month, and every pull request of the bucket yields these
\* bounds.
MonthOfPeriod(b, group) ==
    /\ b.StartDate.sec = 0
    /\ DateOf(b.StartDate).day = 1
    /\ MonthKey(b.StartDate) = b.Period
    /\ b.EndDate.sec = 0
    /\ MonthKey(b.EndDate) = b.Period
    /\ MonthKey(MidnightAfter(b.EndDate, 1)) # b.Period
    /\ \A i \in DOMAIN group :
           MonthBounds(group[i].MergedAt) = Bounds(b.StartDate, b.EndDate)

\* C26: every weekly bucket starts at the Monday 00:00:00 of the ISO week its
\* Period names and ends six days later at the Sunday 00:00:00; every monthly
\* bucket starts at 00:00:00 of the first day of the month its Period names and
\* ends at 00:00:00 of the last day of that month; whichever pull request of the
\* bucket comes first yields the same bounds.
C26_BucketBounds ==
    Done => /\ \A b \in Buckets(weeklyMetrics) : WeekOfPeriod(b, weeklyPRs[b.Period])
            /\ \A b \in Buckets(monthlyMetrics) : MonthOfPeriod(b, monthlyPRs[b.Period])

\* The bucket holds several pull requests, the first merged after the second.
LaterMergedFirst(group) == Len(group) >= 2 /\ Before(group[2].MergedAt, group[1].MergedAt)

\* C26 witness: the bucket of February 2024, whose first pull request was merged
\* on the 29th and the second on the 1st, runs from 2024-02-01 to 2024-02-29, and
\* their weekly buckets from Monday 2024-01-29 and from Monday 2024-02-26.
C26_Witness ==
    /\ Done
    /\ \E b \in Buckets(monthlyMetrics) :
           /\ LaterMergedFirst(monthlyPRs[b.Period])
           /\ b.StartDate = Date(2024, 2, 1, 0)
           /\ b.EndDate = Date(2024, 2, 29, 0)
    /\ \E b \in Buckets(weeklyMetrics) :
           b.StartDate = Date(2024, 1, 29, 0) /\ b.EndDate = Date(2024, 2, 4, 0)
    /\ \E b \in Buckets(weeklyMetrics) :
           b.StartDate = Date(2024, 2, 26, 0) /\ b.EndDate = Date(2024, 3, 3, 0)

\* The positions of the merged pull requests of the input whose key is period.
MergedUnder(Key(_), period) ==
    {i \in MergedIndices(prMetrics) : Key(prMetrics[i].MergedAt) = period}

\* A result without an empty and without a duplicate bucket: each PRCount is at
\* least 1 and is the number of merged input pull requests of the bucket's
\* period, no two buckets have the same Period, every merged input pull request
\* has exactly one bucket, and there are no more buckets than merged pull
\* requests.
NoEmptyNoDuplicate(result, groups, Key(_)) ==
    /\ \A i \in DOMAIN result :
           /\ result[i].PRCount >= 1
           /\ result[i].PRCount = Cardinality(MergedUnder(Key, result[i].Period))
    /\ \A i, j \in DOMAIN result : result[i].Period = result[j].Period => i = j
    /\ \A m \in MergedIndices(prMetrics) :
           Cardinality({i \in DOMAIN result : result[i].Period = Key(prMetrics[m].MergedAt)}) = 1
    /\ Len(result) <= MergedCount(prMetrics)
    /\ \A k \in DOMAIN groups : Len(groups[k]) >= 1

\* C27: in the result of the weekly and of the monthly aggregator every bucket
\* has PRCount >= 1, the Periods are pairwise distinct, every merged input pull
\* request is counted in exactly one bucket, and there are at most as many
\* buckets as merged input pull requests; calculateAggregatedMetrics is never
\* handed an empty group.
C27_NoEmptyNoDuplicateBucket ==
    Done => /\ NoEmptyNoDuplicate(weeklyMetrics, weeklyPRs, WeekKey)
            /\ NoEmptyNoDuplicate(monthlyMetrics, monthlyPRs, MonthKey)

\* C27 witness: three merged pull requests, two of one week and all of one
\* month, give two weekly buckets with PRCount 2 and 1 and one monthly bucket
\* with PRCount 3.
C27_Witness ==
    /\ Done
    /\ MergedCount(prMetrics) = 3
    /\ Len(weeklyMetrics) = 2
    /\ {weeklyMetrics[i].PRCount : i \in DOMAIN weeklyMetrics} = {1, 2}
    /\ Len(monthlyMetrics) = 1
    /\ monthlyMetrics[1].PRCount = 3

\* CalculatePRMetrics has produced the record of a merged pull request whose
\* FirstCommitAt and LastCommitAt are set.
MergedWithCommits ==
    /\ Produced
    /\ ~IsZero(curMetrics.MergedAt)
    /\ ~IsZero(curMetrics.FirstCommitAt)
    /\ ~IsZero(curMetrics.LastCommitAt)

\* The float64 that Duration.Hours() returns for a duration of h hours, h a whole
\* number of minutes and not negative.
AsFloat64(h) == Hours64((h.num * 60) \div h.den)

\* The fields fs of the record are whole numbers of minutes and not negative.
MinutesNotNegative(m, fs) ==
    \A f \in fs : m[f].num >= 0 /\ (m[f].num * 60) % m[f].den = 0

\* f + g = h on the float64 values of three fields of the record.
SumIs64(m, f, g, h) == Add64(AsFloat64(m[f]), AsFloat64(m[g])) = AsFloat64(m[h])

\* f + g and h differ by at most one unit in the last place.
SumNear64(m, f, g, h) ==
    \/ SumIs64(m, f, g, h)
    \/ /\ AsFloat64(m[h]) # Zero64
       /\ Leq64(Add64(AsFloat64(m[f]), AsFloat64(m[g])), StepUp(AsFloat64(m[h]), 1))
       /\ Leq64(AsFloat64(m[h]), StepUp(Add64(AsFloat64(m[f]), AsFloat64(m[g])), 1))

FirstCommitFields ==
    {"FirstCommitToCreateHours", "TotalPRLifetimeHours", "FirstCommitToMergeHours"}

LastCommitFields ==
    {"LastCommitToMergeHours", "CreateToLastCommitHours", "TotalPRLifetimeHours"}

CallOrder == <<"details", "commits", "comments", "reviews">>

\* The requests issued for the n-th pull request, in the order of the log.
IssuedFor(n) == SelectSeq(requests, LAMBDA r : r.pr = n /\ r.ev = "issue")

\* The calls in calls are the first ones of CallOrder, in its order, each once.
InCallOrder(calls) ==
    /\ Len(calls) <= Len(CallOrder)
    /\ \A i \in DOMAIN calls : calls[i].call = CallOrder[i]

\* CalculatePRMetrics has returned for the n-th pull request.
CallReturned(n) == n < idx \/ (n = idx /\ pcPR \in {"returned", "loop"})

\* The number of requests CalculatePRMetrics issues for pr before it returns.
RequestsDue(pr) == IF pr.details.err THEN 1 ELSE IF pr.commits.err THEN 2 ELSE 4

\* C29: for each pull request the requests are issued in the order details,
\* commits, comments, reviews, each at most once; none follows a failed details
\* request, none follows a failed commits request, and after a failed comments
\* request the reviews request is still issued before the call returns.
C29_RequestOrder ==
    \A n \in DOMAIN prs :
        /\ InCallOrder(IssuedFor(n))
        /\ Len(IssuedFor(n)) <= RequestsDue(prs[n])
        /\ CallReturned(n) => Len(IssuedFor(n)) = RequestsDue(prs[n])

\* C29 witness: the call for a pull request whose comments request failed has
\* returned after the four requests; so has one after a failed details request
\* alone, and one after the details and the failed commits request.
C29_Witness ==
    /\ family = "batch"
    /\ Len(prs) = 3
    /\ CallReturned(3)
    /\ prs[1].comments.err /\ ~prs[1].details.err /\ ~prs[1].commits.err
    /\ Len(IssuedFor(1)) = 4
    /\ prs[2].details.err
    /\ Len(IssuedFor(2)) = 1
    /\ prs[3].commits.err /\ ~prs[3].details.err
    /\ Len(IssuedFor(3)) = 2

===========================================================================
